---- MODULE Spec2Model ----
(***************************************************************************)
(* Bank statement analyzer: the transaction store behind server.js (a      *)
(* MongoDB collection with the unique index unique_transaction), the HTTP  *)
(* handlers that change or read it (import, PATCH, delete, aggregate,      *)
(* summary) and the client-side normalizers that produce import batches.   *)
(*                                                                         *)
(* Conventions                                                             *)
(*   - text is a sequence of one-character strings;                        *)
(*   - an amount is [num, v]: num says whether the JSON value is a number, *)
(*     v is the value in euro cents;                                       *)
(*   - a date string is [fmt, y, m, d]: "iso" is YYYY-MM-DD, "dmy" is      *)
(*     DD/MM/YYYY, "empty" is the empty string;                            *)
(*   - Absent is a text field the JSON object does not have.               *)
(*   - a cell of a CSV row and an amount of the client or the parser is a  *)
(*     Value: a text, a number m / 10^k, NaN, null or undefined;           *)
(*   - the arms of a CASE are read in their order, as the if statements    *)
(*     of the source they translate are.                                   *)
(***************************************************************************)
EXTENDS Integers, Sequences, FiniteSets, TLC

VARIABLES
  store,   \* db.collection('transactions'): the documents, in insertion order
  last,    \* the last request served and its response
  conc,    \* the import requests in flight, when two are served concurrently
  call,    \* the last call of a function or handler of the client, with its result
  ui,      \* the state of the App component: what its useState hooks hold
  pdf,     \* the parse-pdf request being served: its position and what it collected
  auth     \* AUTH_PASSWORD, NODE_ENV, the sessions Map, and what logins and logouts were served

vars == <<store, last, conc, call, ui, pdf, auth>>

(***************************************************************************)
(* Bounds of the model.                                                    *)
(***************************************************************************)
MaxBatch == 2      \* longest transactions array of one import request
MaxStore == 2      \* no import is issued that would store more documents

(***************************************************************************)
(* Values.                                                                 *)
(***************************************************************************)
Absent == <<"<absent>">>   \* a text field that is absent (undefined or null)

Num(n) == [num |-> TRUE, v |-> n]
NotANumber == [num |-> FALSE, v |-> 0]

IsoDate(y, m, d) == [fmt |-> "iso", y |-> y, m |-> m, d |-> d]
DmyDate(d, m, y) == [fmt |-> "dmy", y |-> y, m |-> m, d |-> d]
EmptyDate == [fmt |-> "empty", y |-> 0, m |-> 0, d |-> 0]

InvalidDate == [valid |-> FALSE, y |-> 0, m |-> 0, d |-> 0]

\* new Date(string) as the server's runtime parses it: an ISO date is that
\* calendar day; a slash date is read month first (MM/DD/YYYY), and is an
\* Invalid Date when its first field is no month; '' is an Invalid Date.
NewDate(s) ==
  CASE s.fmt = "iso" -> [valid |-> TRUE, y |-> s.y, m |-> s.m, d |-> s.d]
    [] s.fmt = "dmy" ->
         IF s.d \in 1..12
           THEN [valid |-> TRUE, y |-> s.y, m |-> s.d, d |-> s.m]
           ELSE InvalidDate
    [] OTHER -> InvalidDate

(***************************************************************************)
(* Text: the string methods the normalizers and the parser call.           *)
(***************************************************************************)
\* a string literal as text
Chars(s) == [i \in 1..Len(s) |-> SubSeq(s, i, i)]

LowerCaseLetters == Chars("abcdefghijklmnopqrstuvwxyz")
UpperCaseLetters == Chars("ABCDEFGHIJKLMNOPQRSTUVWXYZ")
Range(f) == {f[i] : i \in DOMAIN f}
Lower == Range(LowerCaseLetters)
Upper == Range(UpperCaseLetters)
Letter == Lower \cup Upper
Digit == Range(Chars("0123456789"))
Word == Letter \cup Digit \cup {"_"}          \* \w
Space == {" ", "\t", "\n", "\r"}               \* \s
LineTerminator == {"\n", "\r"}

LowerChar(c) ==
  IF c \in Upper
    THEN LowerCaseLetters[CHOOSE i \in 1..26 : UpperCaseLetters[i] = c]
    ELSE c
UpperChar(c) ==
  IF c \in Lower
    THEN UpperCaseLetters[CHOOSE i \in 1..26 : LowerCaseLetters[i] = c]
    ELSE c

ToLowerCase(t) == CHOOSE r \in {[i \in 1..Len(text) |-> LowerChar(text[i])] : text \in {t}} : TRUE
ToUpperCase(t) == CHOOSE r \in {[i \in 1..Len(text) |-> UpperChar(text[i])] : text \in {t}} : TRUE

\* t has lit at position i
HasAt(t, i, lit) ==
  /\ i >= 1 /\ i + Len(lit) - 1 <= Len(t)
  /\ \A k \in 1..Len(lit) : t[i + k - 1] = lit[k]

Includes(t, lit) ==
  \E text \in {t}, l \in {lit} : \E i \in 1..(Len(text) + 1) : HasAt(text, i, l)
StartsWith(t, lit) == \E text \in {t}, l \in {lit} : HasAt(text, 1, l)

RECURSIVE TrimStart(_)
TrimStart(t) == IF t # <<>> /\ Head(t) \in Space THEN TrimStart(Tail(t)) ELSE t
RECURSIVE TrimEnd(_)
TrimEnd(t) ==
  IF t # <<>> /\ t[Len(t)] \in Space THEN TrimEnd(SubSeq(t, 1, Len(t) - 1)) ELSE t
Trim(t) == CHOOSE r \in {TrimEnd(TrimStart(text)) : text \in {t}} : TRUE

\* the concatenation of the sequences of seqs, from position k on
RECURSIVE FlattenFrom(_, _)
FlattenFrom(seqs, k) == IF k > Len(seqs) THEN <<>> ELSE seqs[k] \o FlattenFrom(seqs, k + 1)
Flatten(seqs) == CHOOSE r \in {FlattenFrom(ss, 1) : ss \in {<<>> \o seqs}} : TRUE

(***************************************************************************)
(* Regular expressions, matched as the backtracking matcher of the         *)
(* runtime matches them: for a pattern and a start position, the end       *)
(* positions of its matches in the order the matcher tries them; the match *)
(* is the first of them at the leftmost start position that has one.       *)
(***************************************************************************)
Groups == 5        \* the most capture groups a pattern of the program has

\* Where an operator below binds a value with "x \in {e}", it is to have e
\* evaluated once: the operator is the same as with e in the place of x.

One(S) == [op |-> "set", chars |-> S, neg |-> FALSE]         \* [...]
NoneOf(S) == [op |-> "set", chars |-> S, neg |-> TRUE]       \* [^...]
AnyChar == NoneOf(LineTerminator)                            \* .
Lit(s) == [op |-> "lit", s |-> Chars(s)]                     \* the characters of s
Cat(items) == [op |-> "seq", items |-> items]
Alt(items) == [op |-> "alt", items |-> items]                \* a|b
\* r{min,max}, and r{min,} when bounded is false; lazy is a trailing ?
Rep(r, min, max, bounded, lazy) ==
  [op |-> "rep", of |-> r, min |-> min, max |-> max, bounded |-> bounded, lazy |-> lazy]
AtLeast(r, n) == Rep(r, n, n, FALSE, FALSE)                  \* r{n,}
Plus(r) == AtLeast(r, 1)                                     \* r+
Star(r) == AtLeast(r, 0)                                     \* r*
Opt(r) == Rep(r, 0, 1, TRUE, FALSE)                          \* r?
LazyPlus(r) == Rep(r, 1, 1, FALSE, TRUE)                     \* r+?
Times(r, n) == Rep(r, n, n, TRUE, FALSE)                     \* r{n}
Cap(n, r) == [op |-> "cap", n |-> n, of |-> r]               \* (r), the n-th group
Bol == [op |-> "bol"]                                        \* ^
Eol == [op |-> "eol"]                                        \* $
WordBoundary == [op |-> "wb"]                                \* \b

Unset == [s |-> 0, e |-> 0]
NoCaps == [n \in 1..Groups |-> Unset]
NoMatch == [found |-> FALSE, s |-> 0, e |-> 0, caps |-> NoCaps]

\* with the i flag a character matches a class if one of its cases is in it
CharIn(c, S, ci) == c \in S \/ (ci /\ (LowerChar(c) \in S \/ UpperChar(c) \in S))

\* t has lit at position i, whatever the case of the letters with the i flag
HasLitAt(t, i, lit, ci) ==
  /\ i + Len(lit) - 1 <= Len(t)
  /\ \A k \in 1..Len(lit) :
       t[i + k - 1] = lit[k] \/ (ci /\ LowerChar(t[i + k - 1]) = LowerChar(lit[k]))

IsWordAt(t, i) == i \in 1..Len(t) /\ t[i] \in Word

RECURSIVE Ends(_, _, _, _, _)
RECURSIVE SeqEnds(_, _, _, _, _, _)
RECURSIVE RepEnds(_, _, _, _, _, _)

Ends(r, t, i, caps, ci) ==
  LET here == <<[pos |-> i, caps |-> caps]>>
  IN  CASE r.op = "set" ->
             IF i <= Len(t) /\ (CharIn(t[i], r.chars, ci) # r.neg)
               THEN <<[pos |-> i + 1, caps |-> caps]>>
               ELSE <<>>
        [] r.op = "lit" ->
             IF HasLitAt(t, i, r.s, ci)
               THEN <<[pos |-> i + Len(r.s), caps |-> caps]>>
               ELSE <<>>
        [] r.op = "seq" -> SeqEnds(r.items, 1, t, i, caps, ci)
        [] r.op = "alt" ->
             Flatten([k \in 1..Len(r.items) |-> Ends(r.items[k], t, i, caps, ci)])
        [] r.op = "rep" -> RepEnds(r, t, i, caps, ci, 0)
        [] r.op = "cap" ->
             CHOOSE ends \in
               {[k \in 1..Len(inner) |->
                   [pos |-> inner[k].pos,
                    caps |-> [inner[k].caps EXCEPT ![r.n] = [s |-> i, e |-> inner[k].pos]]]] :
                  inner \in {Ends(r.of, t, i, caps, ci)}} : TRUE
        [] r.op = "bol" -> IF i = 1 THEN here ELSE <<>>
        [] r.op = "eol" -> IF i = Len(t) + 1 THEN here ELSE <<>>
        [] r.op = "wb" -> IF IsWordAt(t, i - 1) # IsWordAt(t, i) THEN here ELSE <<>>

SeqEnds(items, k, t, i, caps, ci) ==
  IF k > Len(items)
    THEN <<[pos |-> i, caps |-> caps]>>
    ELSE CHOOSE ends \in
           {Flatten([j \in 1..Len(first) |->
                       SeqEnds(items, k + 1, t, first[j].pos, first[j].caps, ci)]) :
              first \in {Ends(items[k], t, i, caps, ci)}} : TRUE

\* the number of characters from position i on that are all in the class r
RunLength(r, t, i, ci) ==
  CHOOSE n \in 0..(Len(t) + 1 - i) :
    /\ \A k \in 0..(n - 1) : CharIn(t[i + k], r.chars, ci) # r.neg
    /\ n = Len(t) + 1 - i \/ (CharIn(t[i + n], r.chars, ci) = r.neg)

\* a repetition of a class: the longest run first (greedy) or last (lazy)
ClassRepEnds(r, t, i, caps, ci) ==
  CHOOSE ends \in
    {[k \in 1..(most + 1 - r.min) |->
        [pos |-> IF r.lazy THEN i + r.min + k - 1 ELSE i + most + 1 - k, caps |-> caps]] :
       most \in {IF r.bounded /\ r.max < run THEN r.max ELSE run :
                   run \in {RunLength(r.of, t, i, ci)}}} : TRUE

\* n repetitions are matched: one more first (greedy) or last (lazy)
RepEnds(r, t, i, caps, ci, n) ==
  LET stop == IF n >= r.min THEN <<[pos |-> i, caps |-> caps]>> ELSE <<>>
  IN  IF r.of.op = "set"
        THEN ClassRepEnds(r, t, i, caps, ci)
        ELSE CHOOSE ends \in
               {IF r.lazy THEN stop \o more ELSE more \o stop :
                  more \in
                    {Flatten([j \in 1..Len(once) |->
                                IF once[j].pos > i
                                  THEN RepEnds(r, t, once[j].pos, once[j].caps, ci, n + 1)
                                  ELSE <<>>]) :
                       once \in {IF ~r.bounded \/ n < r.max
                                   THEN Ends(r.of, t, i, caps, ci) ELSE <<>>}}} : TRUE

\* the first match that starts at position i or later
ExecFrom(re, t, i, ci) ==
  CHOOSE m \in
    {IF \E s \in i..(Len(t) + 1) : all[s] # <<>>
       THEN LET s == CHOOSE s \in i..(Len(t) + 1) :
                       all[s] # <<>> /\ \A b \in i..(s - 1) : all[b] = <<>>
            IN  [found |-> TRUE, s |-> s, e |-> all[s][1].pos, caps |-> all[s][1].caps]
       ELSE NoMatch :
         all \in {<<>> \o [s \in 1..(Len(t) + 1) |->
                              IF s < i THEN <<>> ELSE Ends(re, t, s, NoCaps, ci)]}} : TRUE

\* t.match(re); ci is the i flag
Match(re, t, ci) ==
  CHOOSE m \in {ExecFrom(p, text, 1, ci) : p \in {re}, text \in {t}} : TRUE
Test(re, t, ci) == Match(re, t, ci).found
\* match[n], the text of the n-th group
Group(t, m, n) ==
  CHOOSE g \in {SubSeq(t, c.s, c.e - 1) : c \in {m.caps[n]}} : TRUE

\* t.replace(re, with) for a pattern without the g flag
Replace(t, re, ci, with) ==
  CHOOSE r \in
    UNION {{IF m.found
              THEN SubSeq(text, 1, m.s - 1) \o with \o SubSeq(text, m.e, Len(text))
              ELSE text : m \in {Match(re, text, ci)}} : text \in {t}} : TRUE

\* t.replace(re, with) for a pattern with the g flag, from position i on
RECURSIVE ReplaceAllFrom(_, _, _, _, _)
ReplaceAllFrom(t, re, ci, with, i) ==
  CHOOSE r \in
    {IF m.found /\ m.e > m.s
       THEN SubSeq(t, i, m.s - 1) \o with \o ReplaceAllFrom(t, re, ci, with, m.e)
       ELSE SubSeq(t, i, Len(t)) : m \in {ExecFrom(re, t, i, ci)}} : TRUE
ReplaceAll(t, re, ci, with) ==
  CHOOSE r \in {ReplaceAllFrom(text, p, ci, with, 1) : p \in {re}, text \in {t}} : TRUE

\* t.split(re)[0]
SplitFirst(t, re, ci) ==
  CHOOSE r \in
    UNION {{IF m.found /\ m.e > m.s THEN SubSeq(text, 1, m.s - 1) ELSE text :
              m \in {Match(re, text, ci)}} : text \in {t}} : TRUE

(***************************************************************************)
(* extractCounterparty and expandMerchantName of the client (App.jsx).     *)
(* A text argument that is null or undefined is Absent, and so is the      *)
(* result null.                                                            *)
(***************************************************************************)
Dg == One(Digit)                                   \* \d
Ws == One(Space)                                   \* \s
AZ == One(Upper)                                  \* [A-Z]
Truthy(t) == t # Absent /\ t # <<>>

\* the abbreviations table, in the order of its keys
abbreviations ==
  << <<"AD DELH", "AD Delhaize">>, <<"DELH", "Delhaize">>, <<"COLR", "Colruyt">>,
     <<"CARF", "Carrefour">>, <<"CARREF", "Carrefour">>, <<"LIDL", "Lidl">>,
     <<"ALDI", "Aldi">>, <<"AH", "Albert Heijn">>, <<"ALBERT H", "Albert Heijn">>,
     <<"KRUIDV", "Kruidvat">>, <<"HEMA", "HEMA">>, <<"ACTION", "Action">>,
     <<"ZEEMAN", "Zeeman">>, <<"PRIMARK", "Primark">>, <<"C&A", "C&A">>,
     <<"H&M", "H&M">>, <<"MEDIAMARKT", "MediaMarkt">>, <<"MEDIAMARK", "MediaMarkt">>,
     <<"FNAC", "Fnac">>, <<"BRICO", "Brico">>, <<"HUBO", "Hubo">>,
     <<"GAMMA", "Gamma">>, <<"DREAMLAND", "Dreamland">>,
     <<"STANDAARD", "Standaard Boekhandel">> >>

\* name.split(' ').map(word => first letter upper, rest lower).join(' ')
TitleCase(name) ==
  [i \in 1..Len(name) |->
     IF i = 1 \/ name[i - 1] = " " THEN UpperChar(name[i]) ELSE LowerChar(name[i])]

expandMerchantName(name) ==
  LET upperName == Trim(ToUpperCase(name))
      hits == {k \in 1..Len(abbreviations) : StartsWith(upperName, Chars(abbreviations[k][1]))}
  IN  IF hits # {}
        THEN Chars(abbreviations[CHOOSE k \in hits : \A j \in hits : k <= j][2])
        ELSE TitleCase(name)

\* /BETALING MET DEBETKAART NUMMER \d{4} \d{2}XX XXXX \d{4}\s+(.+)/i
debitCardMatch ==
  Cat(<<Lit("BETALING MET DEBETKAART NUMMER "), Times(Dg, 4), Lit(" "), Times(Dg, 2),
        Lit("XX XXXX "), Times(Dg, 4), Plus(Ws), Cap(1, Plus(AnyChar))>>)
\* /\s+\d{2}\/\d{2}\/\d{4}\s*$/
trailingDate ==
  Cat(<<Plus(Ws), Times(Dg, 2), Lit("/"), Times(Dg, 2), Lit("/"), Times(Dg, 4), Star(Ws), Eol>>)
\* /\s+\d{4}\s+[A-Z]+\s*$/i
trailingPostalCity == Cat(<<Plus(Ws), Times(Dg, 4), Plus(Ws), Plus(AZ), Star(Ws), Eol>>)
\* /\s+[A-Z]+\s+\d{4}\s*$/i
trailingCityPostal == Cat(<<Plus(Ws), Plus(AZ), Plus(Ws), Times(Dg, 4), Star(Ws), Eol>>)
\* /^\d{4}\s+/
leadingStoreCode == Cat(<<Bol, Times(Dg, 4), Plus(Ws)>>)
\* /^\d+$/
allDigits == Cat(<<Bol, Plus(Dg), Eol>>)
\* /^TERUGBETALING WOONKREDIET/i
woonkredietMatch == Cat(<<Bol, Lit("TERUGBETALING WOONKREDIET")>>)
\* /GELDOPNEMING[^A-Z]*([A-Z][A-Z\s]+?)\s+\d{4}/i
atmMatch ==
  Cat(<<Lit("GELDOPNEMING"), Star(NoneOf(Upper)),
        Cap(1, Cat(<<AZ, LazyPlus(One(Upper \cup Space))>>)), Plus(Ws), Times(Dg, 4)>>)
\* /DOMICILIERING[^:]*:\s*([^,\n]+)/i
domMatch ==
  Cat(<<Lit("DOMICILIERING"), Star(NoneOf({":"})), Lit(":"), Star(Ws),
        Cap(1, Plus(NoneOf({",", "\n"})))>>)
\* /NAAM[:\s]+([A-Za-z][A-Za-z\s&\-'\.]+?)(?:\s+[A-Z]{2}\d|\s+IBAN|\s+BIC|\s*$)/i
nameMatch ==
  Cat(<<Lit("NAAM"), Plus(One({":"} \cup Space)),
        Cap(1, Cat(<<One(Letter), LazyPlus(One(Letter \cup Space \cup {"&", "-", "'", "."}))>>)),
        Alt(<<Cat(<<Plus(Ws), Times(AZ, 2), Dg>>), Cat(<<Plus(Ws), Lit("IBAN")>>),
              Cat(<<Plus(Ws), Lit("BIC")>>), Cat(<<Star(Ws), Eol>>)>>)>>)

\* /^\d{4}\s+(.+?)\s+\w+\s+-$/
terminalMatch ==
  Cat(<<Bol, Times(Dg, 4), Plus(Ws), Cap(1, LazyPlus(AnyChar)), Plus(Ws), Plus(One(Word)),
        Plus(Ws), Lit("-"), Eol>>)
\* /^([A-Za-z][A-Za-z0-9\s&'-]+):\s*\d+/
colonMatch ==
  Cat(<<Bol, Cap(1, Cat(<<One(Letter), Plus(One(Letter \cup Digit \cup Space \cup {"&", "'", "-"}))>>)),
        Lit(":"), Star(Ws), Plus(Dg)>>)
\* /^[A-Z0-9]{7}\s+(.+?)(?:\s+(?:BE|NL|DE|FR))?$/i
codeMatch ==
  Cat(<<Bol, Times(One(Upper \cup Digit), 7), Plus(Ws), Cap(1, LazyPlus(AnyChar)),
        Opt(Cat(<<Plus(Ws), Alt(<<Lit("BE"), Lit("NL"), Lit("DE"), Lit("FR")>>)>>)), Eol>>)
\* /\s+B\.?V\.?$/i
trailingBV ==
  Cat(<<Plus(Ws), Lit("B"), Opt(Lit(".")), Lit("V"), Opt(Lit(".")), Eol>>)
\* /\s+-\s*balans-?$/i
trailingBalans == Cat(<<Plus(Ws), Lit("-"), Star(Ws), Lit("balans"), Opt(Lit("-")), Eol>>)
\* /^H\s+M\b/i
leadingHM == Cat(<<Bol, Lit("H"), Plus(Ws), Lit("M"), WordBoundary>>)
\* /^ACUPUNCTUUR[A-Z]/i and /^ACUPUNCTUUR/i
acupunctuurMatch == Cat(<<Bol, Lit("ACUPUNCTUUR"), AZ>>)
acupunctuurPrefix == Cat(<<Bol, Lit("ACUPUNCTUUR")>>)
\* /Klarna$/i, /SHEIN$/i
klarnaMatch == Cat(<<Lit("Klarna"), Eol>>)
sheinMatch == Cat(<<Lit("SHEIN"), Eol>>)
\* /^MASTERCARD\s+\d+/i
mastercardMatch == Cat(<<Bol, Lit("MASTERCARD"), Plus(Ws), Plus(Dg)>>)

\* the name left of the narrative of a debit card payment: the rest after the
\* card number, without its date, place, postal code and store code
debitCardRest(detailsStr) ==
  LET m == Match(debitCardMatch, detailsStr, TRUE)
      r0 == Trim(Group(detailsStr, m, 1))
      r1 == Trim(Replace(r0, trailingDate, FALSE, <<>>))
      r2 == Trim(Replace(r1, trailingPostalCity, TRUE, <<>>))
      r3 == Trim(Replace(r2, trailingCityPostal, TRUE, <<>>))
  IN  Trim(Replace(r3, leadingStoreCode, FALSE, <<>>))

\* the rules on the description, tried when details gave no name
extractFromDescription(description) ==
  LET desc == Trim(description)
      terminal == Match(terminalMatch, desc, FALSE)
      colon == Match(colonMatch, desc, FALSE)
      code == Match(codeMatch, desc, TRUE)
      n0 == Trim(Group(desc, code, 1))
      n1 == Trim(Replace(n0, trailingBV, TRUE, <<>>))
      n2 == Trim(Replace(n1, trailingBalans, TRUE, <<>>))
      location == Replace(desc, acupunctuurPrefix, TRUE, <<>>)
  IN  CASE terminal.found -> Trim(Group(desc, terminal, 1))
        [] colon.found -> Trim(Group(desc, colon, 1))
        [] code.found ->
             IF Test(leadingHM, n2, TRUE) THEN Replace(n2, leadingHM, TRUE, Chars("H&M")) ELSE n2
        [] Test(acupunctuurMatch, desc, TRUE) ->
             Chars("Acupunctuur ") \o <<UpperChar(location[1])>>
               \o ToLowerCase(SubSeq(location, 2, Len(location)))
        [] Test(klarnaMatch, desc, TRUE) -> Chars("Klarna")
        [] Test(sheinMatch, desc, TRUE) -> Chars("Shein")
        [] Test(mastercardMatch, desc, TRUE) -> Chars("Mastercard Payment")
        [] OTHER -> Absent

extractCounterparty(description, details) ==
  LET detailsStr == Trim(details)
      rest == debitCardRest(detailsStr)
      atm == Match(atmMatch, detailsStr, TRUE)
      dom == Match(domMatch, detailsStr, TRUE)
      name == Match(nameMatch, detailsStr, TRUE)
  IN  CASE Truthy(details) /\ Test(debitCardMatch, detailsStr, TRUE)
             /\ rest # <<>> /\ ~Test(allDigits, rest, FALSE) ->
             expandMerchantName(rest)
        [] Truthy(details) /\ Test(woonkredietMatch, detailsStr, TRUE) ->
             Chars("Woonkrediet (Hypotheek)")
        [] Truthy(details) /\ atm.found ->
             Chars("ATM ") \o Trim(Group(detailsStr, atm, 1))
        [] Truthy(details) /\ dom.found -> Trim(Group(detailsStr, dom, 1))
        [] Truthy(details) /\ name.found -> Trim(Group(detailsStr, name, 1))
        [] ~Truthy(description) -> Absent
        [] OTHER -> extractFromDescription(description)

(***************************************************************************)
(* extractCounterparty of the migration script: the rules on the           *)
(* description, with the rows it names as not resolvable.                  *)
(***************************************************************************)
\* /Order[:\s]+\d+/i
orderMatch == Cat(<<Lit("Order"), Plus(One({":"} \cup Space)), Plus(Dg)>>)
\* /by Multisafepay$/i
multisafepayMatch == Cat(<<Lit("by Multisafepay"), Eol>>)
\* /Checkout id:/i
checkoutMatch == Lit("Checkout id:")

migrationExtractCounterparty(description) ==
  LET desc == Trim(description)
      terminal == Match(terminalMatch, desc, FALSE)
      colon == Match(colonMatch, desc, FALSE)
      code == Match(codeMatch, desc, TRUE)
      n0 == Trim(Group(desc, code, 1))
      n1 == Trim(Replace(n0, trailingBV, TRUE, <<>>))
      n2 == Trim(Replace(n1, trailingBalans, TRUE, <<>>))
      location == Replace(desc, acupunctuurPrefix, TRUE, <<>>)
  IN  CASE ~Truthy(description) -> Absent
        [] terminal.found -> Trim(Group(desc, terminal, 1))
        [] colon.found -> Trim(Group(desc, colon, 1))
        [] code.found ->
             IF Test(leadingHM, n2, TRUE) THEN Replace(n2, leadingHM, TRUE, Chars("H&M")) ELSE n2
        [] Test(acupunctuurMatch, desc, TRUE) ->
             Chars("Acupunctuur ") \o <<UpperChar(location[1])>>
               \o ToLowerCase(SubSeq(location, 2, Len(location)))
        [] Test(klarnaMatch, desc, TRUE) -> Chars("Klarna")
        [] Test(sheinMatch, desc, TRUE) -> Chars("Shein")
        [] Test(orderMatch, desc, TRUE) -> Absent
        [] Test(multisafepayMatch, desc, TRUE) -> Absent
        [] Test(mastercardMatch, desc, TRUE) -> Chars("Mastercard Payment")
        [] Test(checkoutMatch, desc, TRUE) -> Absent
        [] desc = Chars("Payment Description") -> Absent
        [] Test(allDigits, desc, FALSE) -> Absent
        [] OTHER -> Absent

(***************************************************************************)
(* Values of the runtime that a CSV cell or a parsed amount can be. A      *)
(* number is m / 10^k, with k the number of its decimals.                  *)
(***************************************************************************)
Value(kind, s, m, k) == [kind |-> kind, s |-> s, m |-> m, k |-> k]
Str(t) == Value("string", t, 0, 0)
Number(m, k) == Value("number", <<>>, m, k)
NaN == Value("NaN", <<>>, 0, 0)
Null == Value("null", <<>>, 0, 0)
Undefined == Value("undefined", <<>>, 0, 0)

DigitChars == <<"0", "1", "2", "3", "4", "5", "6", "7", "8", "9">>
DigitValue(c) == (CHOOSE d \in 1..Len(DigitChars) : DigitChars[d] = c) - 1

\* the number a text of digits denotes
RECURSIVE DigitsValue(_, _)
DigitsValue(ds, acc) ==
  IF ds = <<>> THEN acc ELSE DigitsValue(Tail(ds), acc * 10 + DigitValue(Head(ds)))

RECURSIVE StripTrailingZeros(_)
StripTrailingZeros(ds) ==
  IF ds # <<>> /\ ds[Len(ds)] = "0" THEN StripTrailingZeros(SubSeq(ds, 1, Len(ds) - 1)) ELSE ds

\* the longest prefix parseFloat reads: [+-]? (digits (. digits*)? | . digits+)
floatPrefix ==
  Cat(<<Bol, Cap(1, Opt(One({"+", "-"}))),
        Alt(<<Cat(<<Cap(2, Plus(Dg)), Opt(Cat(<<Lit("."), Cap(3, Star(Dg))>>))>>),
              Cat(<<Lit("."), Cap(3, Plus(Dg))>>)>>)>>)

\* parseFloat(t) for a text of digits, signs, points and commas, which is what
\* its callers pass: the number its longest numeric prefix denotes, or NaN
ParseFloat(t) ==
  CHOOSE v \in
    UNION {{IF ~m.found
              THEN NaN
              ELSE LET frac == StripTrailingZeros(Group(text, m, 3))
                       abs == DigitsValue(Group(text, m, 2) \o frac, 0)
                   IN  Number(IF Group(text, m, 1) = <<"-">> THEN 0 - abs ELSE abs, Len(frac)) :
              m \in {Match(floatPrefix, text, FALSE)}} : text \in {TrimStart(t)}} : TRUE

\* the decimal digits of a natural number
RECURSIVE NatToText(_)
NatToText(n) ==
  IF n < 10
    THEN <<DigitChars[n + 1]>>
    ELSE NatToText(n \div 10) \o <<DigitChars[(n % 10) + 1]>>

RECURSIVE Pow10(_)
Pow10(k) == IF k = 0 THEN 1 ELSE 10 * Pow10(k - 1)

RECURSIVE ZeroPad(_, _)
ZeroPad(ds, width) == IF Len(ds) >= width THEN ds ELSE ZeroPad(<<"0">> \o ds, width)

\* String(v) for a cell value
NumberToText(v) ==
  LET abs == IF v.m < 0 THEN 0 - v.m ELSE v.m
      sign == IF v.m < 0 THEN <<"-">> ELSE <<>>
  IN  IF v.k = 0
        THEN sign \o NatToText(abs)
        ELSE sign \o NatToText(abs \div Pow10(v.k)) \o <<".">>
               \o ZeroPad(NatToText(abs % Pow10(v.k)), v.k)

\* String(v ?? '')
StringOrEmpty(v) ==
  CASE v.kind = "string" -> v.s
    [] v.kind = "number" -> NumberToText(v)
    [] v.kind = "NaN" -> Chars("NaN")
    [] OTHER -> <<>>

\* isNaN(v) for what is no text: null converts to 0, undefined to NaN
IsNaN(v) == v.kind \in {"NaN", "undefined"}

\* !v for a cell value: '', 0, NaN, null and undefined are falsy
Falsy(v) ==
  CASE v.kind = "string" -> v.s = <<>>
    [] v.kind = "number" -> v.m = 0
    [] OTHER -> TRUE

(***************************************************************************)
(* isCreditCardPayment and categorizeTransaction of the client, and        *)
(* categorizeTransaction of the server (the PDF parser calls it).          *)
(***************************************************************************)
\* type is a cell value; description is a text, '' included
isCreditCardPayment(description, type) ==
  \/ type = Str(Chars("Kredietkaartbetaling"))
  \/ Truthy(description) /\ Test(mastercardMatch, description, TRUE)

IncludesAny(desc, words) == \E w \in words : Includes(desc, Chars(w))

\* a number is [kind |-> "number", m, k], the value m / 10^k; a comparison of
\* what is no number (null, NaN) with 0 is false
IsPositive(amount) == amount.kind = "number" /\ amount.m > 0

categorizeTransaction(description, amount) ==
  LET desc == ToLowerCase(description)
  IN  CASE IsPositive(amount) -> "Income"
        [] IncludesAny(desc, {"grocery", "supermarket", "food", "delhaize", "colruyt",
                              "carrefour", "aldi", "lidl"}) -> "Groceries"
        [] IncludesAny(desc, {"restaurant", "cafe", "coffee", "resto", "horeca", "pizza",
                              "takeaway"}) -> "Dining"
        [] IncludesAny(desc, {"gas", "fuel", "shell", "benzine", "nmbs", "de lijn",
                              "total", "q8"}) -> "Transportation"
        [] IncludesAny(desc, {"rent", "mortgage", "huur"}) -> "Housing"
        [] IncludesAny(desc, {"electric", "water", "internet", "phone", "proximus",
                              "telenet", "engie", "luminus"}) -> "Utilities"
        [] IncludesAny(desc, {"amazon", "bol.com", "coolblue", "zalando", "h&m"}) -> "Shopping"
        [] IncludesAny(desc, {"netflix", "spotify", "streamz", "disney", "cinema"}) ->
             "Entertainment"
        [] IncludesAny(desc, {"gym", "fitness", "basic-fit", "apotheek", "pharmacy"}) ->
             "Health & Fitness"
        [] OTHER -> "Other"

\* (mutant) the keywords are looked for before the sign of the amount
serverCategorizeKeywordsFirst(description, amount) ==
  LET desc == ToLowerCase(description)
  IN  CASE IncludesAny(desc, {"ikea", "furniture"}) -> "Shopping"
        [] Includes(desc, Chars("ibood")) -> "Shopping"
        [] IncludesAny(desc, {"itunes", "apple"}) -> "Entertainment"
        [] IncludesAny(desc, {"disney", "netflix", "spotify"}) -> "Entertainment"
        [] IncludesAny(desc, {"airbnb", "hotel", "booking"}) -> "Travel"
        [] Includes(desc, Chars("ring")) /\ Includes(desc, Chars("plan")) -> "Utilities"
        [] Includes(desc, Chars("dpg media")) -> "Subscriptions"
        [] IsPositive(amount) -> "Income"
        [] OTHER -> "Other"

serverCategorizeTransaction(description, amount) ==
  LET desc == ToLowerCase(description)
  IN  CASE IsPositive(amount) -> "Income"
        [] IncludesAny(desc, {"ikea", "furniture"}) -> "Shopping"
        [] Includes(desc, Chars("ibood")) -> "Shopping"
        [] IncludesAny(desc, {"itunes", "apple"}) -> "Entertainment"
        [] IncludesAny(desc, {"disney", "netflix", "spotify"}) -> "Entertainment"
        [] IncludesAny(desc, {"airbnb", "hotel", "booking"}) -> "Travel"
        [] Includes(desc, Chars("ring")) /\ Includes(desc, Chars("plan")) -> "Utilities"
        [] Includes(desc, Chars("dpg media")) -> "Subscriptions"
        [] OTHER -> "Other"

(***************************************************************************)
(* The CSV pipeline of the client: detectColumns, processFile and          *)
(* confirmMapping. A header is a text, a row a function from the headers   *)
(* of its file to cell values, a column mapping a record of headers with   *)
(* '' for a slot that is not mapped.                                       *)
(***************************************************************************)
Fields == {"date", "amount", "description", "details", "counterparty", "type", "status"}
Unmapped == [f \in Fields |-> <<>>]

\* the slot a header is detected for, "" when for none
slotOf(header) ==
  LET h == ToLowerCase(header)
  IN  CASE Includes(h, Chars("uitvoeringsdatum"))
             \/ (Includes(h, Chars("datum")) /\ ~Includes(h, Chars("valuta"))) -> "date"
        [] Includes(h, Chars("bedrag")) \/ Includes(h, Chars("amount")) -> "amount"
        [] Includes(h, Chars("mededeling")) \/ h = Chars("description") -> "description"
        [] h = Chars("details") \/ Includes(h, Chars("omschrijving")) -> "details"
        [] Includes(h, Chars("naam van de tegenpartij")) \/ Includes(h, Chars("tegenpartij")) ->
             "counterparty"
        [] Includes(h, Chars("type verrichting")) \/ h = Chars("type") -> "type"
        [] Includes(h, Chars("status")) -> "status"
        [] OTHER -> ""

\* headers.forEach: a later header of a slot replaces an earlier one
RECURSIVE detectFrom(_, _, _)
detectFrom(headers, k, mapping) ==
  IF k > Len(headers)
    THEN mapping
    ELSE detectFrom(headers, k + 1,
                    IF slotOf(headers[k]) = ""
                      THEN mapping
                      ELSE [mapping EXCEPT ![slotOf(headers[k])] = headers[k]])
detectColumns(headers) == detectFrom(headers, 1, Unmapped)

\* row[header]
Cell(row, header) == IF header \in DOMAIN row THEN row[header] ELSE Undefined
\* v || ''
OrEmpty(v) == IF Falsy(v) THEN Str(<<>>) ELSE v

\* /[^\d.-]/g
notNumeric == NoneOf(Digit \cup {".", "-"})

\* the amount of a row: a text is parsed, what is not a number becomes 0
amountOf(raw) ==
  LET parsed == IF raw.kind = "string"
                  THEN ParseFloat(ReplaceAll(Replace(raw.s, Lit(","), FALSE, <<".">>),
                                             notNumeric, FALSE, <<>>))
                  ELSE raw
  IN  IF IsNaN(parsed) THEN Number(0, 0) ELSE parsed

\* (mutant) the flag is computed from the description with its counterparty prefix
materializeFlagFromFull(row, columnMapping, idx) ==
  LET description == StringOrEmpty(Cell(row, columnMapping.description))
      details == StringOrEmpty(Cell(row, columnMapping.details))
      given == Trim(StringOrEmpty(Cell(row, columnMapping.counterparty)))
      type == OrEmpty(Cell(row, columnMapping.type))
      extracted == extractCounterparty(description, details)
      counterparty == IF given # <<>> THEN given
                      ELSE IF Truthy(extracted) THEN extracted ELSE <<>>
      primaryDescription == IF description # <<>> THEN description ELSE details
      fullDescription == IF counterparty # <<>>
                           THEN counterparty \o Chars(" - ") \o primaryDescription
                           ELSE primaryDescription
      amount == amountOf(Cell(row, columnMapping.amount))
      creditCardPayment == isCreditCardPayment(fullDescription, type)
  IN  [id |-> idx,
       date |-> OrEmpty(Cell(row, columnMapping.date)),
       description |-> Trim(fullDescription),
       details |-> IF details # <<>> THEN Str(details) ELSE Null,
       amount |-> amount,
       type |-> type,
       status |-> OrEmpty(Cell(row, columnMapping.status)),
       category |-> IF creditCardPayment
                      THEN "Credit Card Payment"
                      ELSE categorizeTransaction(fullDescription, amount),
       counterparty |-> counterparty,
       isCreditCardPayment |-> creditCardPayment,
       source |-> "bank_statement"]

\* the record rawData.map makes of the row at index idx
materialize(row, columnMapping, idx) ==
  LET description == StringOrEmpty(Cell(row, columnMapping.description))
      details == StringOrEmpty(Cell(row, columnMapping.details))
      given == Trim(StringOrEmpty(Cell(row, columnMapping.counterparty)))
      type == OrEmpty(Cell(row, columnMapping.type))
      extracted == extractCounterparty(description, details)
      counterparty == IF given # <<>> THEN given
                      ELSE IF Truthy(extracted) THEN extracted ELSE <<>>
      primaryDescription == IF description # <<>> THEN description ELSE details
      fullDescription == IF counterparty # <<>>
                           THEN counterparty \o Chars(" - ") \o primaryDescription
                           ELSE primaryDescription
      amount == amountOf(Cell(row, columnMapping.amount))
      creditCardPayment == isCreditCardPayment(primaryDescription, type)
  IN  [id |-> idx,
       date |-> OrEmpty(Cell(row, columnMapping.date)),
       description |-> Trim(fullDescription),
       details |-> IF details # <<>> THEN Str(details) ELSE Null,
       amount |-> amount,
       type |-> type,
       status |-> OrEmpty(Cell(row, columnMapping.status)),
       category |-> IF creditCardPayment
                      THEN "Credit Card Payment"
                      ELSE categorizeTransaction(fullDescription, amount),
       counterparty |-> counterparty,
       isCreditCardPayment |-> creditCardPayment,
       source |-> "bank_statement"]

\* the filter of confirmMapping
isRejected(t) == ~Falsy(t.status) /\ Includes(ToLowerCase(t.status.s), Chars("geweigerd"))
hasDate(t) == ~Falsy(t.date) /\ Trim(t.date.s) # <<>>
hasAmount(t) == ~IsNaN(t.amount)
kept(t) == hasDate(t) /\ hasAmount(t) /\ ~isRejected(t)
\* toLowerCase and trim are methods of a text only: on a number the filter throws
filterThrows(t) ==
  \/ ~Falsy(t.status) /\ t.status.kind # "string"
  \/ ~Falsy(t.date) /\ t.date.kind # "string"

\* /^(\d{4})-(\d{2})-(\d{2})$/ and /^(\d{2})\/(\d{2})\/(\d{4})$/: the two forms
\* of date the statements carry
isoText ==
  Cat(<<Bol, Cap(1, Times(Dg, 4)), Lit("-"), Cap(2, Times(Dg, 2)), Lit("-"),
        Cap(3, Times(Dg, 2)), Eol>>)
dmyText ==
  Cat(<<Bol, Cap(1, Times(Dg, 2)), Lit("/"), Cap(2, Times(Dg, 2)), Lit("/"),
        Cap(3, Times(Dg, 4)), Eol>>)

\* the date string a text is; a text of another form is a date string that
\* new Date does not parse
DateOfText(t) ==
  LET iso == Match(isoText, t, FALSE)
      dmy == Match(dmyText, t, FALSE)
  IN  CASE t = <<>> -> EmptyDate
        [] iso.found -> IsoDate(DigitsValue(Group(t, iso, 1), 0), DigitsValue(Group(t, iso, 2), 0),
                                DigitsValue(Group(t, iso, 3), 0))
        [] dmy.found -> DmyDate(DigitsValue(Group(t, dmy, 1), 0), DigitsValue(Group(t, dmy, 2), 0),
                                DigitsValue(Group(t, dmy, 3), 0))
        [] OTHER -> [fmt |-> "other", y |-> 0, m |-> 0, d |-> 0]

\* new Date(t.date) of a materialized record
dateObjOf(t) == NewDate(DateOfText(t.date.s))
\* the days of a valid date, to compare two of them
DayNumber(d) == (d.y * 12 + d.m) * 31 + d.d

Orders(n) == {p \in [1..n -> 1..n] : \A i, j \in 1..n : p[i] = p[j] => i = j}

\* processed.sort((a, b) => new Date(b.date) - new Date(a.date)): the latest
\* date first, rows of one date in their order (the sort is stable). With an
\* Invalid Date the comparator returns NaN and is no consistent order, so
\* the order of the result is any.
sortedByDate(processed) ==
  LET n == Len(processed)
      dates == <<>> \o [i \in 1..n |-> dateObjOf(processed[i])]
      newestFirst(p, ds) ==
        \A i, j \in 1..n :
          i < j => \/ DayNumber(ds[p[i]]) > DayNumber(ds[p[j]])
                   \/ DayNumber(ds[p[i]]) = DayNumber(ds[p[j]]) /\ p[i] < p[j]
  IN  UNION {{<<>> \o [i \in 1..n |-> processed[p[i]]] :
                p \in {q \in Orders(n) : (\A i \in 1..n : ds[i].valid) => newestFirst(q, ds)}} :
             ds \in {dates}}

\* numbers m / 10^k: sum, opposite and absolute value, without trailing zeros
RECURSIVE Normalized(_, _)
Normalized(m, k) == IF k > 0 /\ m % 10 = 0 THEN Normalized(m \div 10, k - 1) ELSE Number(m, k)
Add(a, b) ==
  LET k == IF a.k > b.k THEN a.k ELSE b.k
  IN  Normalized(a.m * Pow10(k - a.k) + b.m * Pow10(k - b.k), k)
Opposite(a) == Number(0 - a.m, a.k)
AbsOf(a) == IF a.m < 0 THEN Opposite(a) ELSE a
Zero == Number(0, 0)

RECURSIVE SumOf(_)
SumOf(amounts) == IF amounts = <<>> THEN Zero ELSE Add(Head(amounts), SumOf(Tail(amounts)))

IsNegative(amount) == amount.kind = "number" /\ amount.m < 0

\* the summary calculateSummary sets; sums are exact decimals
summaryOf(txns) ==
  LET nonCreditCardTxns == SelectSeq(txns, LAMBDA t : ~t.isCreditCardPayment)
      gains == SelectSeq(nonCreditCardTxns, LAMBDA t : IsPositive(t.amount))
      losses == SelectSeq(nonCreditCardTxns, LAMBDA t : IsNegative(t.amount))
      income == SumOf([i \in 1..Len(gains) |-> gains[i].amount])
      expenses == AbsOf(SumOf([i \in 1..Len(losses) |-> losses[i].amount]))
      ofCategory(c) == SelectSeq(losses, LAMBDA t : t.category = c)
  IN  [income |-> income, expenses |-> expenses, net |-> Add(income, Opposite(expenses)),
       categoryTotals |->
         [c \in {losses[i].category : i \in 1..Len(losses)} |->
            SumOf([i \in 1..Len(ofCategory(c)) |-> AbsOf(ofCategory(c)[i].amount)])]]

(***************************************************************************)
(* The PDF parser of the server: extractMastercardCounterparty and the     *)
(* body of the loop over the lines of one statement.                       *)
(***************************************************************************)
\* /^PAYPAL\s+/
paypalPrefix == Cat(<<Bol, Lit("PAYPAL"), Plus(Ws)>>)
\* /\s+\d/
spaceDigit == Cat(<<Plus(Ws), Dg>>)
\* /\s+(?:BE|NL|DE|FR|GB|IE|LU)$/
countryCode ==
  Cat(<<Plus(Ws), Alt(<<Lit("BE"), Lit("NL"), Lit("DE"), Lit("FR"), Lit("GB"), Lit("IE"),
                        Lit("LU")>>), Eol>>)
\* /\s+\d+$/
trailingNumber == Cat(<<Plus(Ws), Plus(Dg), Eol>>)

\* the merchants of PAYPAL payments, in the order of the keys
merchantMap ==
  << <<"IBOOD", "iBood">>, <<"ITUNESAPPST AP", "Apple/iTunes">>, <<"AIRBNB", "Airbnb">>,
     <<"DISNEYPLUS", "Disney+">> >>

extractMastercardCounterparty(description) ==
  LET desc == Trim(description)
      merchant == SplitFirst(Replace(desc, paypalPrefix, FALSE, <<>>), spaceDigit, FALSE)
      hits == {k \in 1..Len(merchantMap) : Includes(merchant, Chars(merchantMap[k][1]))}
      first == SplitFirst(desc, countryCode, FALSE)
  IN  CASE StartsWith(desc, Chars("PAYPAL ")) ->
             IF hits # {}
               THEN Chars(merchantMap[CHOOSE k \in hits : \A j \in hits : k <= j][2])
               ELSE merchant
        [] Includes(desc, Chars("IKEA")) -> Chars("IKEA")
        [] Includes(desc, Chars("DPG Media")) -> Chars("DPG Media")
        [] Includes(desc, Chars("RING STANDARD")) -> Chars("Ring")
        [] first # <<>> -> Trim(Replace(first, trailingNumber, FALSE, <<>>))
        [] OTHER -> desc

\* /Van\s+\d{2}\/\d{2}\/(\d{4})\s+tot/
periodMatch ==
  Cat(<<Lit("Van"), Plus(Ws), Times(Dg, 2), Lit("/"), Times(Dg, 2), Lit("/"),
        Cap(1, Times(Dg, 4)), Plus(Ws), Lit("tot")>>)
\* /^€\s*([+-]?[\d.,]+)$/
amountMatch ==
  Cat(<<Bol, Lit("€"), Star(Ws),
        Cap(1, Cat(<<Opt(One({"+", "-"})), Plus(One(Digit \cup {".", ","}))>>)), Eol>>)
\* /^(\d{2})\/(\d{2})(\d{2})\/(\d{2})(.+)$/
txnMatch ==
  Cat(<<Bol, Cap(1, Times(Dg, 2)), Lit("/"), Cap(2, Times(Dg, 2)), Cap(3, Times(Dg, 2)),
        Lit("/"), Cap(4, Times(Dg, 2)), Cap(5, Plus(AnyChar)), Eol>>)

\* text.split('\n'), from position i on
RECURSIVE SplitLinesFrom(_, _)
SplitLinesFrom(t, i) ==
  IF \E j \in i..Len(t) : t[j] = "\n"
    THEN LET j == CHOOSE j \in i..Len(t) : t[j] = "\n" /\ \A b \in i..(j - 1) : t[b] # "\n"
         IN  <<SubSeq(t, i, j - 1)>> \o SplitLinesFrom(t, j + 1)
    ELSE <<SubSeq(t, i, Len(t))>>
SplitLines(t) == CHOOSE r \in {SplitLinesFrom(text, 1) : text \in {t}} : TRUE

\* the year of the statement: of its period line, else the current year
yearOf(text, currentYear) ==
  LET m == Match(periodMatch, text, FALSE)
  IN  IF m.found THEN Group(text, m, 1) ELSE currentYear

\* (mutant) the amount is read as it is written, with its comma
pdfAmountAsWritten(amountStr) == ParseFloat(amountStr)

\* parseFloat(amountStr.replace(/\./g, '').replace(',', '.'))
pdfAmount(amountStr) ==
  ParseFloat(Replace(ReplaceAll(amountStr, Lit("."), FALSE, <<>>), Lit(","), FALSE, <<".">>))

\* the transaction a transaction line starts
startedTransaction(trimmedLine, year) ==
  LET m == Match(txnMatch, trimmedLine, FALSE)
      cleanDescription == Trim(Group(trimmedLine, m, 5))
  IN  [date |-> Group(trimmedLine, m, 1) \o <<"/">> \o Group(trimmedLine, m, 2) \o <<"/">> \o year,
       amount |-> Zero,
       description |-> cleanDescription,
       counterparty |-> extractMastercardCounterparty(cleanDescription),
       type |-> "Mastercard",
       source |-> "mastercard_pdf",
       category |-> serverCategorizeTransaction(cleanDescription, Number(0 - 1, 0))]

NoPending == Null
Flushed(p) ==
  IF p.pendingTransaction # NoPending
    THEN Append(p.allTransactions, p.pendingTransaction)
    ELSE p.allTransactions

\* (mutant) an amount line leaves the transaction pending
parseLineKeepingPending(p, line, year) ==
  LET trimmedLine == Trim(line)
      amount == Match(amountMatch, trimmedLine, FALSE)
      same == [inDetailSection |-> p.inDetailSection,
               pendingTransaction |-> p.pendingTransaction,
               allTransactions |-> p.allTransactions, break |-> FALSE]
  IN  CASE Includes(trimmedLine, Chars("Kaartnummer")) /\ Includes(trimmedLine, Chars("XXXX")) ->
             [same EXCEPT !.inDetailSection = TRUE]
        [] \/ Includes(trimmedLine, Chars("Transacties van"))
           \/ Includes(trimmedLine, Chars("Datum")) /\ Includes(trimmedLine, Chars("transactie")) ->
             same
        [] Includes(trimmedLine, Chars("Subtotaal")) ->
             [same EXCEPT !.allTransactions = Flushed(p), !.pendingTransaction = NoPending,
                          !.break = TRUE]
        [] ~p.inDetailSection -> same
        [] amount.found /\ p.pendingTransaction # NoPending ->
             [same EXCEPT !.pendingTransaction =
                            [p.pendingTransaction EXCEPT
                               !.amount = pdfAmount(Group(trimmedLine, amount, 1))]]
        [] Test(txnMatch, trimmedLine, FALSE) ->
             [same EXCEPT !.allTransactions = Flushed(p),
                          !.pendingTransaction = startedTransaction(trimmedLine, year)]
        [] OTHER -> same

\* one turn of the loop over the lines, on the parser state p: the fields
\* inDetailSection, pendingTransaction, allTransactions it changes and
\* whether it leaves the loop
parseLine(p, line, year) ==
  LET trimmedLine == Trim(line)
      amount == Match(amountMatch, trimmedLine, FALSE)
      same == [inDetailSection |-> p.inDetailSection,
               pendingTransaction |-> p.pendingTransaction,
               allTransactions |-> p.allTransactions, break |-> FALSE]
  IN  CASE Includes(trimmedLine, Chars("Kaartnummer")) /\ Includes(trimmedLine, Chars("XXXX")) ->
             [same EXCEPT !.inDetailSection = TRUE]
        [] \/ Includes(trimmedLine, Chars("Transacties van"))
           \/ Includes(trimmedLine, Chars("Datum")) /\ Includes(trimmedLine, Chars("transactie")) ->
             same
        [] Includes(trimmedLine, Chars("Subtotaal")) ->
             [same EXCEPT !.allTransactions = Flushed(p), !.pendingTransaction = NoPending,
                          !.break = TRUE]
        [] ~p.inDetailSection -> same
        [] amount.found /\ p.pendingTransaction # NoPending ->
             [same EXCEPT !.allTransactions =
                            Append(p.allTransactions,
                                   [p.pendingTransaction EXCEPT
                                      !.amount = pdfAmount(Group(trimmedLine, amount, 1))]),
                          !.pendingTransaction = NoPending]
        [] Test(txnMatch, trimmedLine, FALSE) ->
             [same EXCEPT !.allTransactions = Flushed(p),
                          !.pendingTransaction = startedTransaction(trimmedLine, year)]
        [] OTHER -> same

(***************************************************************************)
(* A transaction as a request carries it.                                  *)
(***************************************************************************)
Txn(date, amount, description, originalDescription, category, type, flag) ==
  [date |-> date, amount |-> amount, description |-> description,
   originalDescription |-> originalDescription, category |-> category,
   type |-> type, isCreditCardPayment |-> flag]

(***************************************************************************)
(* The store: the collection and its unique index.                         *)
(***************************************************************************)
\* (mutant) an index that leaves the amount out of its key
IndexKeyWithoutAmount(doc) == <<doc.date, doc.originalDescription>>

\* The key of the index unique_transaction. A document without the field
\* originalDescription is indexed with null in its place.
IndexKey(doc) ==
  <<doc.date, doc.amount,
    IF "originalDescription" \in DOMAIN doc THEN doc.originalDescription ELSE Absent>>

HasKey(coll, key) == \E i \in 1..Len(coll) : IndexKey(coll[i]) = key

\* insertMany(docs, {ordered: false}): every document is attempted, in array
\* order; one whose key is already indexed is a write error 11000 and the rest
\* are still attempted. An empty array is refused by the driver before
\* anything is sent ("Invalid BulkOperation, Batch cannot be empty").
\* (mutant) the collection without its unique index: every insert succeeds
RECURSIVE InsertEachUnchecked(_, _, _)
InsertEachUnchecked(coll, docs, inserted) ==
  IF docs = <<>>
    THEN [coll |-> coll, insertedCount |-> inserted]
    ELSE InsertEachUnchecked(Append(coll, Head(docs)), Tail(docs), inserted + 1)

\* (mutant) ordered: true, the insertion stops at the first write error
RECURSIVE InsertEachOrdered(_, _, _)
InsertEachOrdered(coll, docs, inserted) ==
  IF docs = <<>> \/ HasKey(coll, IndexKey(Head(docs)))
    THEN [coll |-> coll, insertedCount |-> inserted]
    ELSE InsertEachOrdered(Append(coll, Head(docs)), Tail(docs), inserted + 1)

RECURSIVE InsertEach(_, _, _)
InsertEach(coll, docs, inserted) ==
  IF docs = <<>>
    THEN [coll |-> coll, insertedCount |-> inserted]
    ELSE IF HasKey(coll, IndexKey(Head(docs)))
           THEN InsertEach(coll, Tail(docs), inserted)
           ELSE InsertEach(Append(coll, Head(docs)), Tail(docs), inserted + 1)

InsertMany(coll, docs) ==
  IF docs = <<>>
    THEN [coll |-> coll, insertedCount |-> 0, error |-> "InvalidArgument"]
    ELSE LET r == InsertEach(coll, docs, 0)
         IN  [coll |-> r.coll, insertedCount |-> r.insertedCount,
              error |-> IF r.insertedCount = Len(docs) THEN "none" ELSE "11000"]

\* updateOne({_id}, {$set: updates}): the _id of a document is its position.
\* An update that would give two documents the same index key fails with
\* error 11000 and changes nothing.
\* (mutant) an update that the unique index does not check
UpdateOneUnchecked(coll, id, updates) ==
  IF id \notin 1..Len(coll)
    THEN [coll |-> coll, modifiedCount |-> 0, error |-> "none"]
    ELSE [coll |-> [coll EXCEPT ![id] =
                      [f \in DOMAIN @ |-> IF f \in DOMAIN updates THEN updates[f] ELSE @[f]]],
          modifiedCount |-> 1, error |-> "none"]

SetFields(doc, updates) ==
  [f \in DOMAIN doc |-> IF f \in DOMAIN updates THEN updates[f] ELSE doc[f]]

UpdateOne(coll, id, updates) ==
  IF id \notin 1..Len(coll)
    THEN [coll |-> coll, modifiedCount |-> 0, error |-> "none"]
    ELSE LET new == SetFields(coll[id], updates)
         IN  IF \E j \in 1..Len(coll) : j # id /\ IndexKey(coll[j]) = IndexKey(new)
               THEN [coll |-> coll, modifiedCount |-> 0, error |-> "11000"]
               ELSE [coll |-> [coll EXCEPT ![id] = new],
                     modifiedCount |-> IF new = coll[id] THEN 0 ELSE 1,
                     error |-> "none"]

DeleteMany(coll) == [coll |-> <<>>, deletedCount |-> Len(coll)]

(***************************************************************************)
(* POST /api/transactions/import                                           *)
(***************************************************************************)
\* A Date as BSON stores it: milliseconds since the epoch, and an Invalid
\* Date (NaN milliseconds) as 0, the first day of 1970.
BsonDate(d) == IF d.valid THEN d ELSE [valid |-> TRUE, y |-> 1970, m |-> 1, d |-> 1]

\* {...t, importedAt: new Date(), dateObj: new Date(t.date)}; the import time
\* is read by no handler and is left out.
WithMetadata(t) ==
  [f \in DOMAIN t \cup {"dateObj"} |->
     IF f = "dateObj" THEN BsonDate(NewDate(t.date)) ELSE t[f]]

\* (mutant) the handler without its check of the request body: what is no
\* array has no map method, and the TypeError ends in the catch block
ImportHandlerUnvalidated(coll, body) ==
  IF ~body.present \/ ~body.isArray
    THEN [coll |-> coll, status |-> 500, insertedCount |-> 0, duplicateCount |-> 0,
          error |-> "transactions.map is not a function"]
    ELSE LET docs == [i \in 1..Len(body.items) |-> WithMetadata(body.items[i])]
             r == InsertMany(coll, docs)
         IN  [coll |-> r.coll, status |-> IF r.error = "InvalidArgument" THEN 500 ELSE 200,
              insertedCount |-> r.insertedCount,
              duplicateCount |-> IF r.error = "11000" THEN Len(docs) - r.insertedCount ELSE 0,
              error |-> IF r.error = "InvalidArgument" THEN r.error ELSE ""]

\* The handler: body is [present, isArray, items], the transactions field
\* of the request body (present: the body has the field, with a truthy
\* value). The result is the collection and the response; error is the
\* error field of the response, '' when it has none.
ImportHandler(coll, body) ==
  IF ~body.present \/ ~body.isArray
    THEN [coll |-> coll, status |-> 400, insertedCount |-> 0, duplicateCount |-> 0,
          error |-> "Invalid transactions data"]
    ELSE LET docs == [i \in 1..Len(body.items) |-> WithMetadata(body.items[i])]
             r == InsertMany(coll, docs)
         IN  CASE r.error = "none" ->
                    [coll |-> r.coll, status |-> 200,
                     insertedCount |-> r.insertedCount, duplicateCount |-> 0,
                     error |-> ""]
               [] r.error = "11000" ->
                    [coll |-> r.coll, status |-> 200,
                     insertedCount |-> r.insertedCount,
                     duplicateCount |-> Len(docs) - r.insertedCount,
                     error |-> ""]
               [] OTHER ->
                    [coll |-> r.coll, status |-> 500,
                     insertedCount |-> 0, duplicateCount |-> 0,
                     error |-> "Invalid BulkOperation, Batch cannot be empty"]

(***************************************************************************)
(* GET /api/transactions/summary and /aggregate                            *)
(***************************************************************************)
\* (mutant) a $match stage without the exclusion
MatchesAll(doc, exclude) == TRUE

\* $match {isCreditCardPayment: {$ne: true}} when the query parameter is the
\* string 'true'.
Matches(doc, exclude) == exclude = "true" => doc.isCreditCardPayment # TRUE

\* $cond [$gt [$amount, 0], $amount, 0]; $sum skips what is not a number.
IncomeOf(doc) == IF doc.amount.num /\ doc.amount.v > 0 THEN doc.amount.v ELSE 0
\* (mutant) the expenses summed without $abs
ExpenseSigned(doc) == IF doc.amount.num /\ doc.amount.v < 0 THEN doc.amount.v ELSE 0

\* $cond [$lt [$amount, 0], $abs $amount, 0]
ExpenseOf(doc) == IF doc.amount.num /\ doc.amount.v < 0 THEN 0 - doc.amount.v ELSE 0
AmountOf(doc) == IF doc.amount.num THEN doc.amount.v ELSE 0
NumericOf(doc) == IF doc.amount.num THEN 1 ELSE 0

RECURSIVE SumSeq(_)
SumSeq(ns) == IF ns = <<>> THEN 0 ELSE Head(ns) + SumSeq(Tail(ns))

\* the accumulators of $group over the documents of one group
SumAmount(docs) == SumSeq([i \in 1..Len(docs) |-> AmountOf(docs[i])])
SumIncome(docs) == SumSeq([i \in 1..Len(docs) |-> IncomeOf(docs[i])])
SumExpenses(docs) == SumSeq([i \in 1..Len(docs) |-> ExpenseOf(docs[i])])

\* $avg as the fraction sum / n over the numeric amounts
Avg(docs) ==
  [sum |-> SumAmount(docs), n |-> SumSeq([i \in 1..Len(docs) |-> NumericOf(docs[i])])]

Summary(coll, exclude) ==
  LET matched == SelectSeq(coll, LAMBDA doc : Matches(doc, exclude))
      summary ==
        IF matched # <<>>
          THEN [totalIncome |-> SumIncome(matched),
                totalExpenses |-> SumExpenses(matched),
                transactionCount |-> Len(matched),
                avgTransaction |-> Avg(matched)]
          ELSE [totalIncome |-> 0, totalExpenses |-> 0, transactionCount |-> 0,
                avgTransaction |-> [sum |-> 0, n |-> 0]]
  IN  [f \in DOMAIN summary \cup {"netBalance"} |->
         IF f = "netBalance"
           THEN summary.totalIncome - summary.totalExpenses
           ELSE summary[f]]

\* the _id expression of $group
GroupId(doc, groupBy) ==
  CASE groupBy = "month" -> [kind |-> "month", y |-> doc.dateObj.y, m |-> doc.dateObj.m, d |-> 0, s |-> ""]
    [] groupBy = "year"  -> [kind |-> "year", y |-> doc.dateObj.y, m |-> 0, d |-> 0, s |-> ""]
    [] groupBy = "day"   -> [kind |-> "day", y |-> doc.dateObj.y, m |-> doc.dateObj.m, d |-> doc.dateObj.d, s |-> ""]
    [] groupBy = "type"  -> [kind |-> "field", y |-> 0, m |-> 0, d |-> 0, s |-> doc.type]
    [] OTHER             -> [kind |-> "field", y |-> 0, m |-> 0, d |-> 0, s |-> doc.category]

\* $match then $group: one result per group id among the matched documents
Aggregate(coll, groupBy, exclude) ==
  LET matched == SelectSeq(coll, LAMBDA doc : Matches(doc, exclude))
      ids == {GroupId(matched[i], groupBy) : i \in 1..Len(matched)}
      Members(id) == SelectSeq(matched, LAMBDA doc : GroupId(doc, groupBy) = id)
  IN  {[id |-> id,
        totalAmount |-> SumAmount(Members(id)),
        count |-> Len(Members(id)),
        avgAmount |-> Avg(Members(id)),
        income |-> SumIncome(Members(id)),
        expenses |-> SumExpenses(Members(id))] : id \in ids}

\* $sort {totalAmount: 1}: the orders of the groups that the sort may return
SortedResults(groups) ==
  {seq \in [1..Cardinality(groups) -> groups] :
     /\ \A i, j \in DOMAIN seq : i # j => seq[i] # seq[j]
     /\ \A i, j \in DOMAIN seq : i < j => seq[i].totalAmount <= seq[j].totalAmount}

(***************************************************************************)
(* PATCH /api/transactions/:id and DELETE /api/transactions                *)
(***************************************************************************)
\* id 0 stands for a path parameter that is no ObjectId: new ObjectId(id)
\* throws, as updateOne does on a duplicate key; both end in the catch block.
PatchHandler(coll, id, updates) ==
  IF id = 0
    THEN [coll |-> coll, status |-> 500, modifiedCount |-> 0]
    ELSE LET r == UpdateOne(coll, id, updates)
         IN  IF r.error = "none"
               THEN [coll |-> r.coll, status |-> 200, modifiedCount |-> r.modifiedCount]
               ELSE [coll |-> r.coll, status |-> 500, modifiedCount |-> 0]

DeleteHandler(coll) ==
  LET r == DeleteMany(coll)
  IN  [coll |-> r.coll, status |-> 200, deletedCount |-> r.deletedCount]

(***************************************************************************)
(* The requests of the model.                                              *)
(***************************************************************************)
Jan15 == IsoDate(2024, 1, 15)
Jan16 == IsoDate(2024, 1, 16)

\* the rows of server.test.js and their variations: amounts in cents
SampleRows ==
  {Txn(Jan15, Num(-4550), <<"A">>, Absent, "Groceries", "Betaling", FALSE),
   Txn(Jan16, Num(-4550), <<"A">>, Absent, "Groceries", "Betaling", FALSE),
   Txn(Jan15, Num(100000), <<"A">>, Absent, "Groceries", "Betaling", FALSE)}

\* the first sample row with another description
OtherDescription ==
  Txn(Jan15, Num(-4550), <<"B">>, Absent, "Dining", "Betaling", FALSE)

\* the first sample row carrying an originalDescription
WithOriginal ==
  Txn(Jan15, Num(-4550), <<"A">>, <<"R">>, "Groceries", "Betaling", FALSE)

\* a lump-sum card payment of the amount of the first sample row
CardPayment ==
  Txn(Jan16, Num(-4550), <<"M">>, Absent, "Credit Card Payment",
      "Kredietkaartbetaling", TRUE)

\* a JSON object with none of the three fields filled in
Blank == Txn(EmptyDate, NotANumber, <<>>, Absent, "Other", "", FALSE)

Txns == SampleRows \cup {OtherDescription, WithOriginal, CardPayment, Blank}

SeqsUpTo(S, n) == UNION {[1..k -> S] : k \in 0..n}

\* a request body without a transactions field, and one whose transactions
\* field is no array (an object, a string)
NoTransactions == [present |-> FALSE, isArray |-> FALSE, items |-> <<>>]
NotAnArray == [present |-> TRUE, isArray |-> FALSE, items |-> <<>>]
ArrayOf(items) == [present |-> TRUE, isArray |-> TRUE, items |-> items]

Bodies ==
  {ArrayOf(b) : b \in SeqsUpTo(Txns, MaxBatch)} \cup {NoTransactions, NotAnArray}

\* the $set documents of the PATCH requests: one moves a document onto the
\* date of another, one blanks the description and sets a category of the
\* caller's own
Updates == {[date |-> Jan16], [description |-> <<>>, category |-> "Misc"]}

GroupBys == {"category", "month", "type"}
Flags == {"true", "false"}

(***************************************************************************)
(* The state machine: one request at a time.                               *)
(***************************************************************************)
NoRequests == [r \in {1, 2} |-> [pc |-> "idle"]]

\* no call made yet, the App as its useState hooks initialise it, no parse-pdf
\* request in service
NoCall == [fn |-> "none"]
InitialUi ==
  [transactions |-> <<>>, summary |-> Null, preview |-> Null, columnMapping |-> Null,
   rawData |-> Null, showMapping |-> TRUE, viewMode |-> "saved", loading |-> FALSE,
   error |-> Null]
NoPdfRequest == [pc |-> "idle"]

\* the server as its tests start it: no AUTH_PASSWORD, NODE_ENV 'test', an
\* empty sessions Map; logins and loggedOut keep what the login and logout
\* endpoints answered, generated counts the calls of generateToken
Server(password, env) ==
  [password |-> password, env |-> env, sessions |-> {}, generated |-> 0,
   logins |-> {}, loggedOut |-> {}]
NoAuth == Server(Undefined, "test")

Init ==
  /\ store = <<>>
  /\ last = [op |-> "none"]
  /\ conc = NoRequests
  /\ call = NoCall
  /\ ui = InitialUi
  /\ pdf = NoPdfRequest
  /\ auth = NoAuth

Import(body) ==
  LET r == ImportHandler(store, body)
  IN  /\ Len(r.coll) <= MaxStore
      /\ store' = r.coll
      /\ last' = [op |-> "import", body |-> body, status |-> r.status,
                  insertedCount |-> r.insertedCount,
                  duplicateCount |-> r.duplicateCount,
                  error |-> r.error,
                  before |-> store,
                  repeat |-> last.op = "import" /\ last.body = body]
      /\ UNCHANGED <<conc, call, ui, pdf, auth>>

Patch(id, updates) ==
  LET r == PatchHandler(store, id, updates)
  IN  /\ store' = r.coll
      /\ last' = [op |-> "patch", id |-> id, updates |-> updates,
                  status |-> r.status, modifiedCount |-> r.modifiedCount,
                  before |-> store]
      /\ UNCHANGED <<conc, call, ui, pdf, auth>>

DeleteAll ==
  LET r == DeleteHandler(store)
  IN  /\ store' = r.coll
      /\ last' = [op |-> "delete", status |-> r.status,
                  deletedCount |-> r.deletedCount, before |-> store]
      /\ UNCHANGED <<conc, call, ui, pdf, auth>>

GetSummary(exclude) ==
  /\ store' = store
  /\ last' = [op |-> "summary", exclude |-> exclude, status |-> 200,
              summary |-> Summary(store, exclude)]
  /\ UNCHANGED <<conc, call, ui, pdf, auth>>

GetAggregate(groupBy, exclude) ==
  /\ store' = store
  /\ \E results \in SortedResults(Aggregate(store, groupBy, exclude)) :
       last' = [op |-> "aggregate", groupBy |-> groupBy, exclude |-> exclude,
                status |-> 200, results |-> results]
  /\ UNCHANGED <<conc, call, ui, pdf, auth>>

Next ==
  \/ \E body \in Bodies : Import(body)
  \/ \E id \in 0..(Len(store) + 1), updates \in Updates : Patch(id, updates)
  \/ DeleteAll
  \/ \E exclude \in Flags : GetSummary(exclude)
  \/ \E groupBy \in GroupBys, exclude \in Flags : GetAggregate(groupBy, exclude)

Spec == Init /\ [][Next]_vars

(***************************************************************************)
(* Two import requests served concurrently. The handler awaits insertMany; *)
(* the server applies the documents of an unordered bulk write one at a    *)
(* time, each insert atomic under the unique index, so the documents of    *)
(* two requests interleave in any order.                                   *)
(***************************************************************************)
\* the rows the two concurrent requests draw their batches from
ConcurrentRows == SampleRows \cup {OtherDescription}

ConcurrentBodies ==
  {ArrayOf(b) : b \in SeqsUpTo(ConcurrentRows, MaxBatch)} \cup {NotAnArray}

\* the store before the two requests: empty, or one imported row
InitialStores == {<<>>} \cup {<<WithMetadata(t)>> : t \in ConcurrentRows}

InitConc ==
  /\ store \in InitialStores
  /\ last = [op |-> "none"]
  /\ conc = NoRequests
  /\ call = NoCall
  /\ ui = InitialUi
  /\ pdf = NoPdfRequest
  /\ auth = NoAuth

Done(body, before, status, inserted, duplicates) ==
  [pc |-> "done", body |-> body, before |-> before, status |-> status,
   insertedCount |-> inserted, duplicateCount |-> duplicates]

\* the handler up to its await: validation, the docs array, the bulk write
\* handed to the driver (which refuses an empty one)
Receive(r, body) ==
  /\ conc[r].pc = "idle"
  /\ conc' = [conc EXCEPT ![r] =
       IF ~body.present \/ ~body.isArray
         THEN Done(body, store, 400, 0, 0)
         ELSE IF body.items = <<>>
                THEN Done(body, store, 500, 0, 0)
                ELSE [pc |-> "inserting", body |-> body, before |-> store,
                      docs |-> [i \in 1..Len(body.items) |-> WithMetadata(body.items[i])],
                      insertedCount |-> 0]]
  /\ UNCHANGED <<store, last, call, ui, pdf, auth>>

\* the server applies the next document of the bulk write of request r
InsertNext(r) ==
  /\ conc[r].pc = "inserting"
  /\ conc[r].docs # <<>>
  /\ LET res == InsertEach(store, <<Head(conc[r].docs)>>, 0)
     IN  /\ store' = res.coll
         /\ conc' = [conc EXCEPT ![r].docs = Tail(@),
                                  ![r].insertedCount = @ + res.insertedCount]
  /\ UNCHANGED <<last, call, ui, pdf, auth>>

\* the bulk write has ended: the handler resumes after its await
Respond(r) ==
  /\ conc[r].pc = "inserting"
  /\ conc[r].docs = <<>>
  /\ LET n == Len(conc[r].body.items)
         inserted == conc[r].insertedCount
     IN  conc' = [conc EXCEPT ![r] =
           Done(conc[r].body, conc[r].before, 200, inserted,
                IF inserted = n THEN 0 ELSE n - inserted)]
  /\ UNCHANGED <<store, last, call, ui, pdf, auth>>

NextConc ==
  \/ \E r \in {1, 2}, body \in ConcurrentBodies : Receive(r, body)
  \/ \E r \in {1, 2} : InsertNext(r)
  \/ \E r \in {1, 2} : Respond(r)

SpecConc == InitConc /\ [][NextConc]_vars

(***************************************************************************)
(* The functions of the client and of the parser, each behaviour one call  *)
(* on a sample input: descriptions and narratives as the statements carry  *)
(* them, amounts of either sign, rows of every combination of sample cells.*)
(***************************************************************************)
SampleDescriptions ==
  {"75MC00I H M Online BE", "Jaxx: 72288235", "MASTERCARD 1234567890", "Payment Description",
   "12345678", "Order: 12345", "75ABCDE Checkout id: abc123", "Webshop by Multisafepay",
   "1234 Bakkerij Jan Gent -", "Colruyt supermarket", "Netflix abonnement", "IKEA furniture",
   "xx SHEIN", "ACUPUNCTUURgent", ""}

DebitCardNarrative ==
  "BETALING MET DEBETKAART NUMMER 4871 04XX XXXX 7976 3599 COLRUYT 1234 GENT 15/01/2024"

SampleDetails ==
  {DebitCardNarrative, "TERUGBETALING WOONKREDIET 123 456", "GELDOPNEMING 12/01 BANK GENT 9000 x",
   "DOMICILIERING ref 12: Telenet BV, mandate 5", "OVERSCHRIJVING NAAM: Jan De-Smet BE12 3456", ""}

SampleAmounts == {Number(1, 2), Number(2500, 0), Zero, Number(0 - 4550, 2), Null}

\* a row whose headers are the names of the slots, and the mapping of such rows
RowOf(cells) ==
  [h \in {Chars(f) : f \in Fields} |-> cells[CHOOSE f \in Fields : Chars(f) = h]]
OwnNames == [f \in Fields |-> Chars(f)]

CellRows ==
  {RowOf([date |-> Str(Chars("2024-01-15")), amount |-> amount, description |-> description,
          details |-> details, counterparty |-> counterparty, type |-> type,
          status |-> Str(Chars("Uitgevoerd"))]) :
     amount \in {Str(Chars("-45,50")), Number(2500, 0), Str(Chars("abc"))},
     description \in {Null, Str(Chars("MASTERCARD 1234567890")), Str(Chars("Colruyt supermarket")),
                      Str(Chars("mastercard 7 netflix"))},
     details \in {Null, Str(Chars("MASTERCARD 555 ref")), Str(Chars(DebitCardNarrative))},
     counterparty \in {Null, Str(Chars("MASTERCARD 77 Shop"))},
     type \in {Null, Str(Chars("Kredietkaartbetaling")), Str(Chars("Overschrijving"))}}

CallExtractCounterparty(description, details) ==
  /\ call = NoCall
  /\ call' = [fn |-> "extractCounterparty", description |-> description, details |-> details,
              result |-> extractCounterparty(description, details)]
  /\ UNCHANGED <<store, last, conc, ui, pdf, auth>>

CallMigrationExtractCounterparty(description) ==
  /\ call = NoCall
  /\ call' = [fn |-> "migrationExtractCounterparty", description |-> description,
              details |-> Absent, result |-> migrationExtractCounterparty(description)]
  /\ UNCHANGED <<store, last, conc, ui, pdf, auth>>

CallCategorizeTransaction(description, amount) ==
  /\ call = NoCall
  /\ call' = [fn |-> "categorizeTransaction", description |-> description, amount |-> amount,
              result |-> categorizeTransaction(description, amount)]
  /\ UNCHANGED <<store, last, conc, ui, pdf, auth>>

CallServerCategorizeTransaction(description, amount) ==
  /\ call = NoCall
  /\ call' = [fn |-> "serverCategorizeTransaction", description |-> description,
              amount |-> amount, result |-> serverCategorizeTransaction(description, amount)]
  /\ UNCHANGED <<store, last, conc, ui, pdf, auth>>

CallMaterialize(row) ==
  /\ call = NoCall
  /\ call' = [fn |-> "materialize", row |-> row, result |-> materialize(row, OwnNames, 0)]
  /\ UNCHANGED <<store, last, conc, ui, pdf, auth>>

\* amounts as text, as a bank export or a statement writes them
SampleAmountTexts == {"45,50", "45.50", "1.234,56", "-54,97", "1234.56", "12", "1.234.567,89"}

CallAmountOf(raw) ==
  /\ call = NoCall
  /\ call' = [fn |-> "amountOf", raw |-> raw, result |-> amountOf(Str(raw))]
  /\ UNCHANGED <<store, last, conc, ui, pdf, auth>>

CallPdfAmount(amountStr) ==
  /\ call = NoCall
  /\ call' = [fn |-> "pdfAmount", raw |-> amountStr, result |-> pdfAmount(amountStr)]
  /\ UNCHANGED <<store, last, conc, ui, pdf, auth>>

NextFn ==
  \/ \E d \in SampleDescriptions, details \in SampleDetails :
       CallExtractCounterparty(Chars(d), Chars(details))
  \/ \E d \in SampleDescriptions : CallExtractCounterparty(Chars(d), Absent)
  \/ \E d \in SampleDescriptions : CallMigrationExtractCounterparty(Chars(d))
  \/ \E d \in SampleDescriptions, amount \in SampleAmounts :
       CallCategorizeTransaction(Chars(d), amount)
  \/ \E d \in SampleDescriptions, amount \in SampleAmounts :
       CallServerCategorizeTransaction(Chars(d), amount)
  \/ \E row \in CellRows : CallMaterialize(row)
  \/ \E raw \in SampleAmountTexts : CallAmountOf(Chars(raw))
  \/ \E amountStr \in SampleAmountTexts : CallPdfAmount(Chars(amountStr))

SpecFn == Init /\ [][NextFn]_vars

(***************************************************************************)
(* The App component: the saved view and its fetch, the upload view, the   *)
(* mapping screen. One fetch is in flight at most; loading says so.        *)
(***************************************************************************)
\* what Papa.parse hands to processFile: the keys of the rows in their order
\* and the rows, each a function from the keys to cell values
KbcHeaders ==
  <<"Uitvoeringsdatum", "Valutadatum", "Bedrag ", "Mededeling", "Details", "Type verrichting",
    "Status">>
KbcRow(date, amount, description, details, type, status) ==
  LET cells == <<date, date, amount, description, details, type, status>>
  IN  [h \in {Chars(KbcHeaders[k]) : k \in 1..Len(KbcHeaders)} |->
         cells[CHOOSE k \in 1..Len(KbcHeaders) : Chars(KbcHeaders[k]) = h]]
Executed == Str(Chars("Uitgevoerd"))
CardPaymentType == Str(Chars("Kaartbetaling"))

GroceryRow ==
  KbcRow(Str(Chars("15/01/2024")), Str(Chars("-45,50")), Null, Str(Chars(DebitCardNarrative)),
         CardPaymentType, Executed)
CreditCardRow ==
  KbcRow(Str(Chars("2024-01-20")), Number(0 - 120, 0), Str(Chars("MASTERCARD 1234567890")), Null,
         Str(Chars("Kredietkaartbetaling")), Executed)
RejectedRow ==
  KbcRow(Str(Chars("2024-01-16")), Str(Chars("-10,00")), Str(Chars("Netflix abonnement")), Null,
         CardPaymentType, Str(Chars("GEWEIGERD wegens saldo")))
UndatedRow ==
  KbcRow(Null, Str(Chars("5,00")), Str(Chars("Rente")), Null, Null, Executed)
SalaryRow ==
  KbcRow(Str(Chars("2024-01-31")), Number(2500, 0), Str(Chars("Loon januari")), Null, Null, Executed)
TextAmountRow ==
  KbcRow(Str(Chars("2024-01-17")), Str(Chars("abc")), Str(Chars("Netflix abonnement")), Null,
         CardPaymentType, Executed)
NoAmountRow ==
  KbcRow(Str(Chars("2024-01-18")), Null, Str(Chars("Colruyt supermarket")), Null, CardPaymentType,
         Null)
OtherHeaders == <<"When", "Value", "Text">>
OtherRow ==
  [h \in {Chars(OtherHeaders[k]) : k \in 1..Len(OtherHeaders)} |->
     CASE h = Chars("When") -> Str(Chars("2024-02-01"))
       [] h = Chars("Value") -> Number(0 - 995, 2)
       [] OTHER -> Str(Chars("Spotify"))]

CsvFile(headers, data) ==
  [headers |-> [k \in 1..Len(headers) |-> Chars(headers[k])], data |-> data]
CsvFiles ==
  {CsvFile(KbcHeaders, <<GroceryRow, CreditCardRow>>),
   CsvFile(KbcHeaders, <<RejectedRow, UndatedRow, SalaryRow>>),
   CsvFile(KbcHeaders, <<TextAmountRow, NoAmountRow>>),
   CsvFile(OtherHeaders, <<OtherRow>>),
   CsvFile(<<>>, <<>>)}

\* what the server answers to a fetch of the saved transactions
SavedTransaction ==
  [id |-> 1, date |-> Str(Chars("2024-01-05")), description |-> Chars("Telenet - internet"),
   details |-> Null, amount |-> Number(0 - 60, 0), type |-> Str(<<>>), category |-> "Utilities",
   counterparty |-> Chars("Telenet"), source |-> "bank_statement", isCreditCardPayment |-> FALSE]
FetchResults == {<<>>, <<SavedTransaction>>}

\* the row with its keys trimmed; of two keys with one trimmed form the later
cleanRow(row, keys) ==
  [h \in {Trim(keys[k]) : k \in 1..Len(keys)} |->
     row[keys[CHOOSE k \in 1..Len(keys) :
                /\ Trim(keys[k]) = h
                /\ \A j \in (k + 1)..Len(keys) : Trim(keys[j]) # h]]]

resetAnalyzer(state) ==
  [state EXCEPT !.transactions = <<>>, !.summary = Null, !.preview = Null,
                !.columnMapping = Null, !.rawData = Null, !.showMapping = TRUE]

\* (mutant) only the date slot is required
mappingHasDate(columnMapping) == columnMapping.date # <<>>
\* the slots confirmMapping requires
mappingComplete(columnMapping) == columnMapping.date # <<>> /\ columnMapping.amount # <<>>

MappingScreenShown == ui.preview # Null /\ ui.showMapping

\* the button Refresh of the saved view: fetchTransactions starts
Refresh ==
  /\ ui.viewMode = "saved" /\ ~ui.loading
  /\ ui' = [ui EXCEPT !.loading = TRUE, !.error = Null]
  /\ call' = [fn |-> "fetchTransactions"]
  /\ UNCHANGED <<store, last, conc, pdf, auth>>

\* the button View Saved of the upload view
ViewSaved ==
  /\ ui.viewMode = "upload" /\ ~ui.loading
  /\ ui' = [resetAnalyzer(ui) EXCEPT !.viewMode = "saved", !.loading = TRUE, !.error = Null]
  /\ call' = [fn |-> "viewSaved"]
  /\ UNCHANGED <<store, last, conc, pdf, auth>>

\* the button Import Data of the saved view
ImportData ==
  /\ ui.viewMode = "saved"
  /\ ui' = [resetAnalyzer(ui) EXCEPT !.viewMode = "upload"]
  /\ call' = [fn |-> "importData"]
  /\ UNCHANGED <<store, last, conc, pdf, auth>>

\* the responses to fetchTransactions arrive
FetchDone(saved) ==
  /\ ui.loading
  /\ ui' = [ui EXCEPT !.transactions = saved, !.summary = summaryOf(saved),
                      !.showMapping = FALSE, !.loading = FALSE]
  /\ call' = [fn |-> "fetchDone"]
  /\ UNCHANGED <<store, last, conc, pdf, auth>>

FetchFailed ==
  /\ ui.loading
  /\ ui' = [ui EXCEPT !.loading = FALSE,
                      !.error = Str(Chars("Failed to load transactions. Is the server running?"))]
  /\ call' = [fn |-> "fetchFailed"]
  /\ UNCHANGED <<store, last, conc, pdf, auth>>

\* a CSV file is chosen and parsed
ProcessFile(file) ==
  /\ ui.viewMode = "upload" /\ ui.preview = Null /\ ~ui.loading
  /\ LET keys == IF file.data = <<>> THEN <<>> ELSE file.headers
         headers == [k \in 1..Len(keys) |-> Trim(keys[k])]
         cleanedData == [i \in 1..Len(file.data) |-> cleanRow(file.data[i], file.headers)]
     IN  ui' = [ui EXCEPT !.columnMapping = detectColumns(headers),
                          !.rawData = ArrayOf(cleanedData),
                          !.preview = [headers |-> headers,
                                       sampleRows |->
                                         SubSeq(cleanedData, 1,
                                                IF Len(cleanedData) > 5
                                                  THEN 5 ELSE Len(cleanedData)),
                                       totalRows |-> Len(cleanedData)],
                          !.showMapping = TRUE]
  /\ call' = [fn |-> "processFile"]
  /\ UNCHANGED <<store, last, conc, pdf, auth>>

\* the selections made on the mapping screen: a slot and a column, or none
MappingChoices ==
  {<<"date", "">>, <<"amount", "">>, <<"date", "Valutadatum">>, <<"date", "Bedrag">>,
   <<"amount", "Valutadatum">>, <<"amount", "Mededeling">>, <<"date", "When">>,
   <<"amount", "Value">>, <<"amount", "Text">>}

\* a column, or none, is selected for a slot of the mapping screen
HandleMappingChange(field, value) ==
  /\ MappingScreenShown
  /\ value = <<>> \/ \E k \in 1..Len(ui.preview.headers) : ui.preview.headers[k] = value
  /\ ui' = [ui EXCEPT !.columnMapping[field] = value]
  /\ call' = [fn |-> "handleMappingChange"]
  /\ UNCHANGED <<store, last, conc, pdf, auth>>

\* the button Continue to Analysis of the mapping screen
ConfirmMapping ==
  /\ MappingScreenShown
  /\ IF ~mappingComplete(ui.columnMapping)
       THEN /\ call' = [fn |-> "confirmMapping", outcome |-> "rejected", before |-> ui]
            /\ ui' = ui
       ELSE \E processed \in {<<>> \o [i \in 1..Len(ui.rawData.items) |->
                                          materialize(ui.rawData.items[i], ui.columnMapping,
                                                      i - 1)]} :
              IF \E i \in 1..Len(processed) : filterThrows(processed[i])
                THEN /\ call' = [fn |-> "confirmMapping", outcome |-> "threw", before |-> ui]
                     /\ ui' = ui
                ELSE /\ call' = [fn |-> "confirmMapping", outcome |-> "done", before |-> ui]
                     /\ \E sorted \in sortedByDate(SelectSeq(processed, kept)) :
                          ui' = [ui EXCEPT !.transactions = sorted,
                                           !.summary = summaryOf(sorted),
                                           !.showMapping = FALSE]
  /\ UNCHANGED <<store, last, conc, pdf, auth>>

NextCsv ==
  \/ Refresh
  \/ ViewSaved
  \/ ImportData
  \/ \E saved \in FetchResults : FetchDone(saved)
  \/ FetchFailed
  \/ \E file \in CsvFiles : ProcessFile(file)
  \/ \E choice \in MappingChoices : HandleMappingChange(choice[1], Chars(choice[2]))
  \/ ConfirmMapping

SpecCsv == Init /\ [][NextCsv]_vars

(***************************************************************************)
(* POST /api/transactions/parse-pdf: the files of the request one after    *)
(* the other, the lines of a file one after the other.                     *)
(***************************************************************************)
MaxFiles == 3      \* most files of one parse-pdf request

\* an uploaded file: its name, whether pdf() reads it, the text it reads or
\* the message of the error it throws
PdfFile(originalname, text) ==
  [originalname |-> originalname, readable |-> TRUE, text |-> Chars(text), error |-> ""]
IboodStatement ==
  PdfFile("ibood.pdf",
          "Kaartnummer 5412 75XX XXXX 1234\n06/0108/01PAYPAL IBOOD 123456 NL\n€ -54,97\nSubtotaal € -54,97")
PeriodStatement ==
  PdfFile("januari.pdf",
          "Van 05/01/2025 tot 04/02/2025\nKaartnummer: 5412 75XX XXXX 1234\nTransacties van januari\n10/0111/01IKEA GENT BE\n€ -1.234,56\n12/0113/01RING STANDARD PLAN 42 NL")
CoverLetter ==
  PdfFile("brief.pdf", "Geachte klant\n06/0108/01PAYPAL IBOOD 123456 NL\n€ -54,97")
Corrupt ==
  [originalname |-> "corrupt.pdf", readable |-> FALSE, text |-> <<>>,
   error |-> "Invalid PDF structure"]
PdfFiles == {IboodStatement, PeriodStatement, CoverLetter, Corrupt}

\* new Date().getFullYear().toString() at the time a file is parsed
CurrentYears == {Chars("2025"), Chars("2026")}

\* the request arrives; without files it is answered 400
ReceivePdf(files) ==
  /\ pdf.pc \in {"idle", "done"}
  /\ pdf' = IF files = <<>>
              THEN [pc |-> "done", files |-> files, f |-> 0, year |-> <<>>, lines |-> <<>>,
                    l |-> 0, inDetailSection |-> FALSE, pendingTransaction |-> NoPending,
                    allTransactions |-> <<>>, errors |-> <<>>,
                    response |-> [status |-> 400, error |-> "No PDF files uploaded"]]
              ELSE [pc |-> "file", files |-> files, f |-> 1, year |-> <<>>, lines |-> <<>>,
                    l |-> 0, inDetailSection |-> FALSE, pendingTransaction |-> NoPending,
                    allTransactions |-> <<>>, errors |-> <<>>, response |-> Null]
  /\ UNCHANGED <<store, last, conc, call, ui, auth>>

\* (mutant) the parser state of the file before is kept for the next file
OpenFileKeepingState(currentYear) ==
  /\ pdf.pc = "file" /\ pdf.f <= Len(pdf.files)
  /\ LET file == pdf.files[pdf.f]
     IN  pdf' = IF ~file.readable
                  THEN [pdf EXCEPT !.errors = Append(@, [file |-> file.originalname,
                                                          error |-> file.error]),
                                   !.f = @ + 1]
                  ELSE [pdf EXCEPT !.pc = "lines", !.year = yearOf(file.text, currentYear),
                                   !.lines = SplitLines(file.text), !.l = 1]
  /\ UNCHANGED <<store, last, conc, call, ui, auth>>

\* the next file of the request: pdf() throws and the error is recorded, or
\* it gives the text, whose lines are parsed from the initial parser state
OpenFile(currentYear) ==
  /\ pdf.pc = "file" /\ pdf.f <= Len(pdf.files)
  /\ LET file == pdf.files[pdf.f]
     IN  pdf' = IF ~file.readable
                  THEN [pdf EXCEPT !.errors = Append(@, [file |-> file.originalname,
                                                          error |-> file.error]),
                                   !.f = @ + 1]
                  ELSE [pdf EXCEPT !.pc = "lines", !.year = yearOf(file.text, currentYear),
                                   !.lines = SplitLines(file.text), !.l = 1,
                                   !.inDetailSection = FALSE,
                                   !.pendingTransaction = NoPending]
  /\ UNCHANGED <<store, last, conc, call, ui, auth>>

\* one turn of the loop over the lines
ParseLine ==
  /\ pdf.pc = "lines" /\ pdf.l <= Len(pdf.lines)
  /\ LET r == parseLine(pdf, pdf.lines[pdf.l], pdf.year)
     IN  pdf' = [pdf EXCEPT !.inDetailSection = r.inDetailSection,
                            !.pendingTransaction = r.pendingTransaction,
                            !.allTransactions = r.allTransactions,
                            !.l = IF r.break THEN Len(pdf.lines) + 1 ELSE @ + 1]
  /\ UNCHANGED <<store, last, conc, call, ui, auth>>

\* after the loop: a transaction still pending is pushed, the next file is next
EndOfFile ==
  /\ pdf.pc = "lines" /\ pdf.l > Len(pdf.lines)
  /\ pdf' = [pdf EXCEPT !.allTransactions = Flushed(pdf), !.pc = "file", !.f = @ + 1]
  /\ UNCHANGED <<store, last, conc, call, ui, auth>>

\* after the last file: the response
RespondPdf ==
  /\ pdf.pc = "file" /\ pdf.f > Len(pdf.files)
  /\ pdf' = [pdf EXCEPT !.pc = "done",
                        !.response =
                          [status |-> 200, success |-> TRUE,
                           transactions |-> pdf.allTransactions,
                           transactionCount |-> Len(pdf.allTransactions),
                           fileCount |-> Len(pdf.files),
                           errors |-> IF Len(pdf.errors) > 0
                                        THEN ArrayOf(pdf.errors) ELSE Undefined]]
  /\ UNCHANGED <<store, last, conc, call, ui, auth>>

\* JSON.stringify of an amount: NaN travels as null
jsonAmount(amount) == IF amount.kind = "NaN" THEN Null ELSE amount

\* new Date(year, month - 1, day) of a date 'DD/MM/YYYY' as a number of days:
\* months and days beyond their range carry over, a year below 100 is of
\* the twentieth century
daysBeforeYear(y) == 365 * y + (y - 1) \div 4 - (y - 1) \div 100 + (y - 1) \div 400
isLeapYear(y) == y % 4 = 0 /\ (y % 100 # 0 \/ y % 400 = 0)
daysBeforeMonth(y, monthIndex) ==
  <<0, 31, 59, 90, 120, 151, 181, 212, 243, 273, 304, 334>>[monthIndex + 1]
    + (IF monthIndex >= 2 /\ isLeapYear(y) THEN 1 ELSE 0)
parseDate(d) ==
  LET day == DigitsValue(SubSeq(d, 1, 2), 0)
      monthIndex == DigitsValue(SubSeq(d, 4, 5), 0) - 1
      written == DigitsValue(SubSeq(d, 7, Len(d)), 0)
      year == (IF written < 100 THEN 1900 + written ELSE written) + monthIndex \div 12
  IN  daysBeforeYear(year) + daysBeforeMonth(year, monthIndex % 12) + day

\* processed.sort((a, b) => parseDate(b.date) - parseDate(a.date)): the
\* latest date first, transactions of one date in their order
RECURSIVE insertNewestFirst(_, _)
insertNewestFirst(sorted, t) ==
  IF sorted = <<>>
    THEN <<t>>
    ELSE IF parseDate(Head(sorted).date) >= parseDate(t.date)
           THEN <<Head(sorted)>> \o insertNewestFirst(Tail(sorted), t)
           ELSE <<t>> \o sorted
RECURSIVE sortNewestFirst(_, _)
sortNewestFirst(processed, n) ==
  IF n = 0 THEN <<>> ELSE insertNewestFirst(sortNewestFirst(processed, n - 1), processed[n])

noTransactionsFound ==
  Str(Chars("No transactions found in the PDF(s). Make sure these are Mastercard statement PDFs."))
failedToParse == Str(Chars("Failed to parse PDF files. Please try again."))

\* handlePdfUpload from the response on: the App after the handler has run
handlePdfUpload(state, response, fileCount) ==
  LET data == response.transactions
      processed == [idx \in 1..Len(data) |->
                      [id |-> idx - 1, date |-> data[idx].date,
                       amount |-> jsonAmount(data[idx].amount),
                       description |-> data[idx].description,
                       counterparty |-> data[idx].counterparty, type |-> data[idx].type,
                       source |-> data[idx].source, category |-> data[idx].category,
                       isCreditCardPayment |-> FALSE]]
      sorted == <<>> \o sortNewestFirst(processed, Len(processed))
  IN  CASE response.status # 200 -> [state EXCEPT !.error = failedToParse, !.loading = FALSE]
        [] Len(data) = 0 -> [state EXCEPT !.error = noTransactionsFound, !.loading = FALSE]
        [] OTHER -> [state EXCEPT !.error = Null, !.loading = FALSE,
                                  !.transactions = sorted,
                                  !.summary = summaryOf(sorted),
                                  !.showMapping = FALSE,
                                  !.preview = [totalRows |-> Len(sorted), isPdf |-> TRUE,
                                               fileCount |-> fileCount]]

\* the App receives the response to the request it sent and shows it
HandlePdfUpload ==
  /\ pdf.pc = "done"
  /\ ui' = handlePdfUpload(ui, pdf.response, Len(pdf.files))
  /\ pdf' = [pdf EXCEPT !.pc = "shown"]
  /\ UNCHANGED <<store, last, conc, call, auth>>

NextPdf ==
  \/ \E files \in SeqsUpTo(PdfFiles, MaxFiles) : ReceivePdf(files)
  \/ \E currentYear \in CurrentYears : OpenFile(currentYear)
  \/ ParseLine
  \/ EndOfFile
  \/ RespondPdf
  \/ HandlePdfUpload

SpecPdf == Init /\ [][NextPdf]_vars

(***************************************************************************)
(* Shorthands for the claims.                                              *)
(***************************************************************************)
ImportServed == last.op = "import" /\ last.body.present /\ last.body.isArray
Items == last.body.items
KeyOfRow(i) == IndexKey(WithMetadata(Items[i]))
\* row i meets its key in the store as it was, or earlier in its own batch
AlreadyStored(i) ==
  \/ HasKey(last.before, KeyOfRow(i))
  \/ \E j \in 1..(i - 1) : KeyOfRow(j) = KeyOfRow(i)
NewRows == {i \in 1..Len(Items) : ~AlreadyStored(i)}
StoredRows == {i \in 1..Len(Items) : AlreadyStored(i)}

\* C1: importing the same batch of N transactions twice in a row makes the
\* second import answer success with insertedCount = 0 and duplicateCount = N,
\* and the store holds as many transactions as after the first import.
C1_IdempotentReimport ==
  (ImportServed /\ last.repeat) =>
    /\ last.status = 200
    /\ last.insertedCount = 0
    /\ last.duplicateCount = Len(Items)
    /\ Len(store) = Len(last.before)

\* The same for the batches that hold at least one transaction.
C1_NonEmptyReimport ==
  (ImportServed /\ last.repeat /\ Items # <<>>) =>
    /\ last.status = 200
    /\ last.insertedCount = 0
    /\ last.duplicateCount = Len(Items)
    /\ store = last.before

C1_Reimported == ImportServed /\ last.repeat /\ Len(Items) = MaxBatch

\* C2: in every state reached by imports, PATCH requests and clear-all, no
\* two stored transactions have the same (date, amount, rawDescription); the
\* raw description of the key is the field the index names,
\* originalDescription.
C2_UniqueKeys ==
  \A i, j \in 1..Len(store) :
    i # j => <<store[i].date, store[i].amount, store[i].originalDescription>>
               # <<store[j].date, store[j].amount, store[j].originalDescription>>

\* a PATCH that would have moved a document onto the key of another was served
C2_PatchCollided ==
  /\ last.op = "patch" /\ last.id \in 1..Len(last.before)
  /\ \E j \in 1..Len(last.before) :
       /\ j # last.id
       /\ IndexKey(last.before[j]) = IndexKey(SetFields(last.before[last.id], last.updates))

\* C3: an import is not all-or-nothing. For a batch that mixes rows already
\* stored and new rows, in any order, every new row is persisted and every
\* stored row is skipped: insertedCount is the number of new rows and
\* duplicateCount the number of stored ones.
C3_PartialImport ==
  (ImportServed /\ NewRows # {} /\ StoredRows # {}) =>
    /\ last.status = 200
    /\ last.insertedCount = Cardinality(NewRows)
    /\ last.duplicateCount = Cardinality(StoredRows)
    /\ Len(store) = Len(last.before) + Cardinality(NewRows)
    /\ \A i \in NewRows : \E k \in 1..Len(store) : store[k] = WithMetadata(Items[i])
    /\ \A k \in 1..Len(last.before) : store[k] = last.before[k]

\* a batch whose first row was in the store and whose second row was new
C3_StoredThenNew ==
  /\ ImportServed /\ Len(Items) = 2
  /\ HasKey(last.before, KeyOfRow(1))
  /\ 2 \in NewRows

\* C4: for every batch that is an array (the empty one and one holding the
\* same row twice included) the import returns insertedCount and
\* duplicateCount, their sum is the length of the batch and insertedCount is
\* the number of documents the store gained.
C4_ExactCounts ==
  ImportServed =>
    /\ last.status = 200
    /\ last.insertedCount + last.duplicateCount = Len(Items)
    /\ last.insertedCount = Len(store) - Len(last.before)

\* The same for the arrays that hold at least one transaction.
C4_NonEmptyCounts ==
  (ImportServed /\ Items # <<>>) =>
    /\ last.status = 200
    /\ last.insertedCount + last.duplicateCount = Len(Items)
    /\ last.insertedCount = Len(store) - Len(last.before)

\* C6: two rows of one batch that differ only in amount, or only in date,
\* are both inserted into an empty store: insertedCount = 2, duplicateCount = 0.
DifferOnlyIn(a, b, f) ==
  /\ a[f] # b[f]
  /\ \A g \in DOMAIN a \ {f} : a[g] = b[g]

C6_DistinctByAmountOrDate ==
  (/\ ImportServed /\ last.before = <<>> /\ Len(Items) = 2
   /\ \/ DifferOnlyIn(Items[1], Items[2], "amount")
      \/ DifferOnlyIn(Items[1], Items[2], "date")) =>
    /\ last.status = 200
    /\ last.insertedCount = 2
    /\ last.duplicateCount = 0
    /\ Len(store) = 2

C6_TwoAmountsImported ==
  /\ ImportServed /\ last.before = <<>> /\ Len(Items) = 2
  /\ DifferOnlyIn(Items[1], Items[2], "amount")

\* C8: with excludeCreditCardPayments = 'true' a stored row flagged
\* isCreditCardPayment adds to no group's count, totalAmount, income,
\* expenses or average, nor to the summary: every figure is the one computed
\* over the unflagged rows alone; over one flagged and one unflagged row of
\* equal amount the totals are those of the unflagged row.
Unflagged == SelectSeq(store, LAMBDA doc : doc.isCreditCardPayment # TRUE)
UnflaggedIn(groupBy, id) ==
  SelectSeq(Unflagged, LAMBDA doc : GroupId(doc, groupBy) = id)
AmountsOf(docs) ==
  [i \in 1..Len(docs) |-> IF docs[i].amount.num THEN docs[i].amount.v ELSE 0]
PositiveOf(ns) == [i \in 1..Len(ns) |-> IF ns[i] > 0 THEN ns[i] ELSE 0]
NegativeOf(ns) == [i \in 1..Len(ns) |-> IF ns[i] < 0 THEN 0 - ns[i] ELSE 0]
OneFlaggedOneNot ==
  /\ Len(store) = 2
  /\ \E i, j \in 1..2 :
       /\ store[i].isCreditCardPayment = TRUE
       /\ store[j].isCreditCardPayment = FALSE
       /\ store[i].amount = store[j].amount /\ store[j].amount.num

C8_CardPaymentsExcluded ==
  /\ (last.op = "aggregate" /\ last.exclude = "true") =>
       /\ \A k \in 1..Len(last.results) :
            LET g == last.results[k]
                members == UnflaggedIn(last.groupBy, g.id)
            IN  /\ members # <<>>
                /\ g.count = Len(members)
                /\ g.totalAmount = SumSeq(AmountsOf(members))
                /\ g.income = SumSeq(PositiveOf(AmountsOf(members)))
                /\ g.expenses = SumSeq(NegativeOf(AmountsOf(members)))
                /\ g.avgAmount.sum = SumSeq(AmountsOf(members))
                /\ g.avgAmount.n = Len(SelectSeq(members, LAMBDA doc : doc.amount.num))
       /\ \A i \in 1..Len(Unflagged) : \E k \in 1..Len(last.results) :
            last.results[k].id = GroupId(Unflagged[i], last.groupBy)
       /\ OneFlaggedOneNot =>
            /\ Len(last.results) = 1
            /\ last.results[1].count = 1
            /\ last.results[1].totalAmount = Unflagged[1].amount.v
  /\ (last.op = "summary" /\ last.exclude = "true") =>
       /\ last.summary.transactionCount = Len(Unflagged)
       /\ last.summary.totalIncome = SumSeq(PositiveOf(AmountsOf(Unflagged)))
       /\ last.summary.totalExpenses = SumSeq(NegativeOf(AmountsOf(Unflagged)))
       /\ last.summary.avgTransaction.sum = SumSeq(AmountsOf(Unflagged))
       /\ OneFlaggedOneNot =>
            /\ last.summary.transactionCount = 1
            /\ last.summary.totalIncome - last.summary.totalExpenses
                 = Unflagged[1].amount.v

C8_AggregatedOverFlagged ==
  last.op = "aggregate" /\ last.exclude = "true" /\ OneFlaggedOneNot

\* C9: for every stored set, the empty one included, the summary has
\* netBalance = totalIncome - totalExpenses, totalIncome >= 0,
\* totalExpenses >= 0 and transactionCount = the number of stored rows not
\* flagged as card payments; the rows of -45.50 and 1000 give totalIncome
\* 1000, totalExpenses 45.50, netBalance 954.50 and transactionCount 2.
SalaryAndPurchase ==
  /\ Len(store) = 2
  /\ {store[1].amount, store[2].amount} = {Num(-4550), Num(100000)}
  /\ \A i \in 1..2 : store[i].isCreditCardPayment = FALSE

C9_SummaryIdentity ==
  (last.op = "summary" /\ last.exclude = "true") =>
    /\ last.summary.netBalance = last.summary.totalIncome - last.summary.totalExpenses
    /\ last.summary.totalIncome >= 0
    /\ last.summary.totalExpenses >= 0
    /\ last.summary.transactionCount = Len(Unflagged)
    /\ store = <<>> => last.summary.transactionCount = 0 /\ last.summary.netBalance = 0
    /\ SalaryAndPurchase =>
         /\ last.summary.totalIncome = 100000
         /\ last.summary.totalExpenses = 4550
         /\ last.summary.netBalance = 95450
         /\ last.summary.transactionCount = 2

C9_SummaryOfSalaryAndPurchase ==
  last.op = "summary" /\ last.exclude = "true" /\ SalaryAndPurchase

\* C7: for every interleaving of two concurrent imports (of overlapping
\* batches or not), once both are answered the store holds exactly one
\* document per distinct key among the two batches and the store as it was,
\* and the two insertedCount add up to the number of keys that were new;
\* every row of both batches was handed to the store, none filtered before.
KeysOf(docs) == {<<docs[i].date, docs[i].amount, docs[i].originalDescription>> :
                   i \in 1..Len(docs)}
BothAnswered ==
  \A r \in {1, 2} : conc[r].pc = "done" /\ conc[r].status = 200
\* the store before either request: the store seen by the request received first
StartStore ==
  IF Len(conc[1].before) <= Len(conc[2].before)
    THEN conc[1].before ELSE conc[2].before
BatchKeys == KeysOf(conc[1].body.items) \cup KeysOf(conc[2].body.items)

C7_ConcurrentImportsConverge ==
  BothAnswered =>
    /\ KeysOf(store) = KeysOf(StartStore) \cup BatchKeys
    /\ Len(store) = Cardinality(KeysOf(store))
    /\ conc[1].insertedCount + conc[2].insertedCount
         = Cardinality(BatchKeys \ KeysOf(StartStore))
    /\ \A r \in {1, 2} :
         conc[r].insertedCount + conc[r].duplicateCount = Len(conc[r].body.items)

\* two batches of two rows sharing a key were served interleaved: request 1
\* stored its first row first, and yet request 2 stored the shared row
C7_Interleaved ==
  /\ BothAnswered
  /\ Len(conc[1].body.items) = 2 /\ Len(conc[2].body.items) = 2
  /\ KeysOf(conc[1].body.items) \cap KeysOf(conc[2].body.items) # {}
  /\ conc[1].insertedCount = 1 /\ conc[2].insertedCount = 2
  /\ store[Len(StartStore) + 1] = WithMetadata(conc[1].body.items[1])

\* C5: a row is skipped as a duplicate only when a stored transaction, or
\* an earlier row of its batch, has the same date, amount and raw description:
\* after an import every row of the batch is in the store, itself or as a
\* document of the same date, amount and description text; two rows of the
\* same date and amount and different text are both inserted.
SameSourceRow(doc, t) ==
  /\ doc.date = t.date
  /\ doc.amount = t.amount
  /\ doc.description = t.description

C5_SkippedOnlyIfSameRow ==
  (ImportServed /\ last.status = 200) =>
    \A i \in 1..Len(Items) :
      \E k \in 1..Len(store) : SameSourceRow(store[k], Items[i])

\* C10: every stored transaction, after any imports and field corrections,
\* has a non-empty date, a numeric amount and a non-empty description.
C10_MandatoryFields ==
  \A k \in 1..Len(store) :
    /\ store[k].date # EmptyDate
    /\ store[k].amount.num
    /\ store[k].description # <<>>

\* the thirteen values of the category taxonomy
Taxonomy ==
  {"Income", "Groceries", "Dining", "Transportation", "Housing", "Utilities",
   "Shopping", "Entertainment", "Health & Fitness", "Credit Card Payment",
   "Subscriptions", "Travel", "Other"}

\* C11: the category of every stored transaction, after any sequence of
\* imports and corrections, is one of the thirteen taxonomy values.
C11_StoredCategories ==
  \A k \in 1..Len(store) : store[k].category \in Taxonomy

\* C12: an import request whose transactions field is missing or is no
\* array is answered 400 with an error field, and the store is unchanged.
C12_InvalidBodyRejected ==
  (last.op = "import" /\ ~(last.body.present /\ last.body.isArray)) =>
    /\ last.status = 400
    /\ last.error # ""
    /\ store = last.before

\* a request without the field was served while the store held documents
C12_MissingFieldOnStore ==
  /\ last.op = "import" /\ ~last.body.present
  /\ last.before # <<>>

Classified == call.fn \in {"categorizeTransaction", "serverCategorizeTransaction"}

\* C13: for every description and every amount > 0, the classifier of the
\* CSV pipeline and the classifier of the PDF parser both return "Income".
C13_IncomeOverride ==
  (Classified /\ call.amount.kind = "number" /\ call.amount.m > 0) => call.result = "Income"

\* the PDF parser's classifier was given a positive amount with a description
\* that holds one of its keywords
C13_KeywordWithPositiveAmount ==
  /\ call.fn = "serverCategorizeTransaction"
  /\ call.description = Chars("IKEA furniture")
  /\ call.amount = Number(1, 2)
  /\ call.result = "Income"

Materialized == call.fn = "materialize"
CellText(header) == StringOrEmpty(call.row[Chars(header)])
\* the description of the row as the file carries it, details when it is empty
PrimaryText == IF CellText("description") # <<>> THEN CellText("description") ELSE CellText("details")
\* t is MASTERCARD, in any case, then white space, then a digit
StartsMastercardNumber(t) ==
  /\ HasLitAt(t, 1, Chars("MASTERCARD"), TRUE)
  /\ \E i \in 12..Len(t) : t[i] \in Digit /\ \A b \in 11..(i - 1) : t[b] \in Space

\* C14: the flag isCreditCardPayment of a materialized row is computed from
\* its description without the counterparty prefix (details when the
\* description is empty) and its type; when the flag is true the category is
\* "Credit Card Payment", when false it is the classifier's result.
C14_FlagAndCategory ==
  Materialized =>
    /\ call.result.isCreditCardPayment =
         (\/ call.row[Chars("type")] = Str(Chars("Kredietkaartbetaling"))
          \/ StartsMastercardNumber(PrimaryText))
    /\ call.result.isCreditCardPayment => call.result.category = "Credit Card Payment"
    /\ ~call.result.isCreditCardPayment =>
         call.result.category =
           categorizeTransaction(call.result.description, call.result.amount)

\* a row with an empty description, a positive amount and no type was flagged
\* through its details
C14_FlaggedThroughDetails ==
  /\ Materialized
  /\ call.row[Chars("description")] = Null
  /\ call.row[Chars("details")] = Str(Chars("MASTERCARD 555 ref"))
  /\ call.row[Chars("type")] = Null
  /\ call.row[Chars("amount")] = Number(2500, 0)
  /\ call.result.isCreditCardPayment
  /\ call.result.category = "Credit Card Payment"

Extracted == call.fn \in {"extractCounterparty", "migrationExtractCounterparty"}

\* C17: called with no details, the extractor returns "H&M" for
\* "75MC00I H M Online BE", "Jaxx" for "Jaxx: 72288235", "Mastercard Payment"
\* for "MASTERCARD 1234567890" and null for "Payment Description".
C17_ExtractorExamples ==
  (Extracted /\ call.details = Absent) =>
    /\ call.description = Chars("75MC00I H M Online BE") => call.result = Chars("H&M")
    /\ call.description = Chars("Jaxx: 72288235") => call.result = Chars("Jaxx")
    /\ call.description = Chars("MASTERCARD 1234567890") => call.result = Chars("Mastercard Payment")
    /\ call.description = Chars("Payment Description") => call.result = Absent

\* the forms of description the extractor is to leave without counterparty
AllDigits(t) == t # <<>> /\ \A i \in 1..Len(t) : t[i] \in Digit
OrderForm(t) ==
  /\ HasLitAt(t, 1, Chars("Order: "), FALSE)
  /\ AllDigits(SubSeq(t, 8, Len(t)))
EndsWith(t, lit) == Len(t) >= Len(lit) /\ SubSeq(t, Len(t) - Len(lit) + 1, Len(t)) = lit
Unresolvable(t) ==
  \/ AllDigits(t)
  \/ OrderForm(t)
  \/ Includes(t, Chars("Checkout id:"))
  \/ EndsWith(t, Chars("by Multisafepay"))
  \/ t = Chars("Payment Description")

\* C18: for a description that is a pure numeric reference, has the form
\* "Order: <n>", contains "Checkout id:", ends with "by Multisafepay" or is
\* "Payment Description", the extractor returns null.
C18_UnresolvableRows ==
  (Extracted /\ call.details = Absent /\ Unresolvable(call.description)) => call.result = Absent

Confirmed == call.fn = "confirmMapping"
RawRows == call.before.rawData.items
RawCell(i, slot) == Cell(RawRows[i], call.before.columnMapping[slot])
\* the cell is no number and no text that reads as one
FailsToParse(cell) ==
  /\ cell.kind # "number"
  /\ cell.kind = "string" =>
       ParseFloat(ReplaceAll(Replace(cell.s, Lit(","), FALSE, <<".">>), notNumeric, FALSE, <<>>)) = NaN
\* the row is one the materialization is to discard
Discarded(i) ==
  \/ Falsy(RawCell(i, "date"))
  \/ FailsToParse(RawCell(i, "amount"))
  \/ /\ RawCell(i, "status").kind = "string"
     /\ Includes(ToLowerCase(RawCell(i, "status").s), Chars("geweigerd"))

\* C15: row materialization discards a row if its date is empty, its amount
\* fails to parse to a finite number or its status contains "geweigerd" in
\* any case, and keeps every other row: the output has as many records as
\* there are rows that are none of these.
C15_DiscardedRows ==
  (Confirmed /\ call.outcome = "done") =>
    Len(ui.transactions) = Cardinality({i \in 1..Len(RawRows) : ~Discarded(i)})

\* C16: confirming a mapping whose date slot or amount slot is unmapped is
\* rejected, and the transactions, the summary and the state of the mapping
\* screen are what they were.
C16_IncompleteMappingRejected ==
  (Confirmed /\ (call.before.columnMapping.date = <<>> \/ call.before.columnMapping.amount = <<>>)) =>
    /\ call.outcome = "rejected"
    /\ ui = call.before

\* a mapping with its amount slot unmapped was confirmed over a file with rows,
\* while transactions and a summary were on display
C16_RejectedOverTransactions ==
  /\ Confirmed
  /\ call.before.columnMapping.date # <<>>
  /\ call.before.columnMapping.amount = <<>>
  /\ call.before.rawData.items # <<>>
  /\ call.before.transactions # <<>>
  /\ call.before.summary # Null
  /\ call.outcome = "rejected"

PdfAnswered == pdf.pc = "done" /\ pdf.response.status = 200

\* C19: the statement text made of a "Kaartnummer ... XXXX" header line, the
\* line "06/0108/01PAYPAL IBOOD 123456 NL", the line "€ -54,97" and a
\* "Subtotaal" line yields exactly one transaction, with amount -54.97,
\* counterparty "iBood", type "Mastercard" and source "mastercard_pdf".
C19_IboodExample ==
  (PdfAnswered /\ pdf.files = <<IboodStatement>>) =>
    /\ Len(pdf.response.transactions) = 1
    /\ pdf.response.transactions[1].amount = Number(0 - 5497, 2)
    /\ pdf.response.transactions[1].counterparty = Chars("iBood")
    /\ pdf.response.transactions[1].type = "Mastercard"
    /\ pdf.response.transactions[1].source = "mastercard_pdf"

\* the request with that statement alone was answered
C19_IboodParsed ==
  /\ PdfAnswered
  /\ pdf.files = <<IboodStatement>>
  /\ pdf.response.transactionCount = 1

\* the transactions of one statement parsed on its own, from the initial
\* parser state
RECURSIVE ParsedFrom(_, _, _, _)
ParsedFrom(p, lines, l, year) ==
  IF l > Len(lines)
    THEN Flushed(p)
    ELSE LET r == parseLine(p, lines[l], year)
         IN  IF r.break THEN Flushed(r) ELSE ParsedFrom(r, lines, l + 1, year)
ParsedAlone(file, currentYear) ==
  ParsedFrom([inDetailSection |-> FALSE, pendingTransaction |-> NoPending,
              allTransactions |-> <<>>],
             SplitLines(file.text), 1, yearOf(file.text, currentYear))

\* the transactions of the readable files of files[k..], each parsed on its
\* own in the year years[k]
RECURSIVE AllParsedAlone(_, _, _)
AllParsedAlone(files, years, k) ==
  IF k > Len(files)
    THEN <<>>
    ELSE (IF files[k].readable THEN ParsedAlone(files[k], years[k]) ELSE <<>>)
           \o AllParsedAlone(files, years, k + 1)

Unreadable(files) == SelectSeq(files, LAMBDA file : ~file.readable)

\* C20: when parsing one file of a request fails, the failure is recorded as
\* a {file, error} entry, every other file is parsed from the initial state
\* with no pending transaction carried over, and the response holds the
\* transactions of all the files that parsed.
C20_FailedFileIsolated ==
  /\ (pdf.pc = "lines" /\ pdf.l = 1) =>
       ~pdf.inDetailSection /\ pdf.pendingTransaction = NoPending
  /\ PdfAnswered =>
       /\ \E years \in [1..Len(pdf.files) -> CurrentYears] :
            pdf.response.transactions = AllParsedAlone(pdf.files, years, 1)
       /\ LET failed == Unreadable(pdf.files)
          IN  IF failed = <<>>
                THEN pdf.response.errors = Undefined
                ELSE pdf.response.errors =
                       ArrayOf([k \in 1..Len(failed) |->
                                  [file |-> failed[k].originalname, error |-> failed[k].error]])

\* a statement that ends on a pending transaction, a file that fails and the
\* statement of one transaction were parsed in one request
C20_FailureBetweenStatements ==
  /\ PdfAnswered
  /\ pdf.files = <<PeriodStatement, Corrupt, IboodStatement>>
  /\ pdf.response.transactionCount = 3
  /\ pdf.response.errors = ArrayOf(<<[file |-> "corrupt.pdf", error |-> "Invalid PDF structure"]>>)

(***************************************************************************)
(* The import when the store fails: the connection to the store is lost    *)
(* while insertMany is in progress, after the server applied some of the   *)
(* documents. insertMany then rejects with a network error, which has no   *)
(* code 11000.                                                             *)
(***************************************************************************)
\* insertMany interrupted after the server attempted the first n documents
InsertManyInterrupted(coll, docs, n) ==
  [coll |-> InsertEach(coll, SubSeq(docs, 1, n), 0).coll, insertedCount |-> 0,
   error |-> "MongoNetworkError"]

\* (mutant) the catch block without its test of the error code: every error
\* of the bulk write is taken for duplicates
ImportHandlerAnyErrorIsDuplicate(coll, body, n) ==
  IF ~body.present \/ ~body.isArray
    THEN [coll |-> coll, status |-> 400, insertedCount |-> 0, duplicateCount |-> 0,
          error |-> "Invalid transactions data"]
    ELSE LET docs == [i \in 1..Len(body.items) |-> WithMetadata(body.items[i])]
             r == InsertManyInterrupted(coll, docs, n)
         IN  [coll |-> r.coll, status |-> 200, insertedCount |-> r.insertedCount,
              duplicateCount |-> Len(docs) - r.insertedCount, error |-> ""]

\* the handler when insertMany is interrupted: the error is no error 11000,
\* is thrown again and answered by the outer catch block
ImportHandlerInterrupted(coll, body, n) ==
  IF ~body.present \/ ~body.isArray
    THEN [coll |-> coll, status |-> 400, insertedCount |-> 0, duplicateCount |-> 0,
          error |-> "Invalid transactions data"]
    ELSE LET docs == [i \in 1..Len(body.items) |-> WithMetadata(body.items[i])]
             r == InsertManyInterrupted(coll, docs, n)
         IN  CASE r.error = "none" ->
                    [coll |-> r.coll, status |-> 200,
                     insertedCount |-> r.insertedCount, duplicateCount |-> 0,
                     error |-> ""]
               [] r.error = "11000" ->
                    [coll |-> r.coll, status |-> 200,
                     insertedCount |-> r.insertedCount,
                     duplicateCount |-> Len(docs) - r.insertedCount,
                     error |-> ""]
               [] OTHER ->
                    [coll |-> r.coll, status |-> 500,
                     insertedCount |-> 0, duplicateCount |-> 0,
                     error |-> "connection closed"]

\* the rows of the imports that meet a failing store
InterruptedBodies ==
  {ArrayOf(b) : b \in SeqsUpTo(SampleRows \cup {OtherDescription}, MaxBatch) \ {<<>>}}
    \cup {NotAnArray}

ImportInterrupted(body, n) ==
  LET r == ImportHandlerInterrupted(store, body, n)
  IN  /\ n <= Len(body.items)
      /\ Len(r.coll) <= MaxStore
      /\ store' = r.coll
      /\ last' = [op |-> "importInterrupted", body |-> body, applied |-> n,
                  status |-> r.status, insertedCount |-> r.insertedCount,
                  duplicateCount |-> r.duplicateCount, error |-> r.error,
                  before |-> store]
      /\ UNCHANGED <<conc, call, ui, pdf, auth>>

NextInterrupted ==
  \/ \E body \in ConcurrentBodies \cup {ArrayOf(<<>>)} : Import(body)
  \/ \E body \in InterruptedBodies, n \in 0..MaxBatch : ImportInterrupted(body, n)
  \/ DeleteAll

SpecInterrupted == Init /\ [][NextInterrupted]_vars

(***************************************************************************)
(* The parser on one statement: every text of at most MaxLines lines drawn *)
(* from the lines a statement is made of.                                  *)
(***************************************************************************)
MaxLines == 4      \* most lines of a statement text

\* the header of the detail section, two transaction lines, an amount line,
\* the end marker, a line of continuation text, a transaction line whose
\* narrative reads as a header line, an end marker that names the card
StatementLines ==
  {"Kaartnummer 5412 75XX XXXX 1234", "06/0108/01PAYPAL IBOOD 123456 NL",
   "10/0111/01IKEA GENT BE", "€ -54,97", "Subtotaal € -54,97", "  vervolg omschrijving",
   "12/0113/01Transacties van Dijk BV", "Subtotaal Kaartnummer 5412 75XX XXXX 1234"}

\* the lines joined by '\n'
RECURSIVE JoinLines(_, _)
JoinLines(lines, k) ==
  IF k > Len(lines)
    THEN <<>>
    ELSE Chars(lines[k]) \o (IF k < Len(lines) THEN <<"\n">> ELSE <<>>) \o JoinLines(lines, k + 1)
Statement(lines) ==
  [originalname |-> "statement.pdf", readable |-> TRUE,
   text |-> <<>> \o JoinLines(lines, 1), error |-> ""]
StatementYear == Chars("2025")

\* a request with one statement; the behaviour follows that one request
ReceiveStatement(lines) ==
  /\ pdf.pc = "idle"
  /\ ReceivePdf(<<Statement(lines)>>)

NextStatement ==
  \/ \E lines \in SeqsUpTo(StatementLines, MaxLines) : ReceiveStatement(lines)
  \/ OpenFile(StatementYear)
  \/ ParseLine
  \/ EndOfFile
  \/ RespondPdf

SpecStatement == Init /\ [][NextStatement]_vars

(***************************************************************************)
(* Save to Database: the transactions the App shows after a PDF upload or  *)
(* a confirmed CSV mapping are posted to the import as they are.           *)
(***************************************************************************)
\* an amount of the App in cents, as the store of this model holds amounts
centsOf(amount) ==
  IF amount.kind = "number" /\ amount.k <= 2
    THEN Num(amount.m * Pow10(2 - amount.k))
    ELSE NotANumber

\* JSON.stringify({transactions}): the element of the request body that a
\* transaction of the App becomes; date, description, category and type
\* travel unchanged
savedPdfTransaction(t) ==
  Txn(DateOfText(t.date), centsOf(t.amount), t.description, Absent, t.category, Chars(t.type),
      t.isCreditCardPayment)
savedCsvTransaction(t) ==
  Txn(DateOfText(StringOrEmpty(t.date)), centsOf(t.amount), t.description, Absent, t.category,
      StringOrEmpty(t.type), t.isCreditCardPayment)

\* the transactions of the App after the upload of the two statements, and
\* after the mapping of the two rows of a bank export was confirmed
UploadedTransactions ==
  handlePdfUpload(InitialUi,
                  [status |-> 200,
                   transactions |-> ParsedAlone(PeriodStatement, Chars("2025"))
                                      \o ParsedAlone(IboodStatement, Chars("2025"))],
                  2).transactions
ConfirmedTransactions ==
  <<materialize(cleanRow(GroceryRow, CsvFile(KbcHeaders, <<>>).headers),
                detectColumns(CsvFile(KbcHeaders, <<>>).headers), 0),
    materialize(cleanRow(SalaryRow, CsvFile(KbcHeaders, <<>>).headers),
                detectColumns(CsvFile(KbcHeaders, <<>>).headers), 1)>>
SavedRows ==
  {savedPdfTransaction(UploadedTransactions[i]) : i \in 1..Len(UploadedTransactions)}
    \cup {savedCsvTransaction(ConfirmedTransactions[i]) : i \in 1..Len(ConfirmedTransactions)}
SavedBodies == {ArrayOf(b) : b \in SeqsUpTo(SavedRows, MaxBatch)}

\* a correction of the date, to an ISO date and to a date as the parser writes it
DateUpdates == {[date |-> Jan16], [date |-> DmyDate(6, 1, 2025)]}
DateGroupBys == {"day", "month"}

NextSave ==
  \/ \E body \in SavedBodies : Import(body)
  \/ \E id \in 0..(Len(store) + 1), updates \in DateUpdates : Patch(id, updates)
  \/ DeleteAll
  \/ \E exclude \in Flags : GetSummary(exclude)
  \/ \E groupBy \in DateGroupBys, exclude \in Flags : GetAggregate(groupBy, exclude)

SpecSave == Init /\ [][NextSave]_vars

(***************************************************************************)
(* Authentication: the sessions Map, the login and logout endpoints, and   *)
(* the requests of the protected routes, which pass requireAuth first.     *)
(***************************************************************************)
MaxTokens == 2     \* no login is served that would generate more tokens

\* AUTH_PASSWORD of the protected configurations
AuthPassword == Str(Chars("geheim"))

\* protected, protected but run as the tests run it, and without a password
Servers ==
  {Server(AuthPassword, "production"), Server(AuthPassword, "test"),
   Server(Undefined, "production")}

\* Math.random().toString(36).substring(2) + Date.now().toString(36): a text
\* of digits and lower-case letters. The random part has some 52 bits and
\* the clock part never decreases: the n-th call gives a text no earlier
\* call gave, here 'k' and n.
generateToken(n) == Str(Chars("k") \o NatToText(n))

\* req.headers.authorization?.replace('Bearer ', ''): the first 'Bearer '
\* of the header, wherever it stands, is taken out
bearerToken(authorization) ==
  IF authorization = Undefined
    THEN Undefined
    ELSE Str(Replace(authorization.s, Lit("Bearer "), FALSE, <<>>))

\* (mutant) a middleware that asks for a token and does not look it up
requireAuthAnyToken(state, authorization) ==
  \/ Falsy(state.password)
  \/ state.env = "test"
  \/ ~Falsy(bearerToken(authorization))

\* TRUE: next() is called; FALSE: the request is answered 401
requireAuth(state, authorization) ==
  \/ Falsy(state.password)
  \/ state.env = "test"
  \/ LET token == bearerToken(authorization)
     IN  ~(Falsy(token) \/ token \notin state.sessions)

\* POST /api/auth/login
Login(password) ==
  LET granted == Falsy(auth.password) \/ password = auth.password
      token == generateToken(auth.generated + 1)
  IN  /\ granted => auth.generated < MaxTokens
      /\ auth' = IF granted
                   THEN [auth EXCEPT !.sessions = @ \cup {token},
                                     !.generated = @ + 1,
                                     !.logins = @ \cup {[token |-> token,
                                                         password |-> password]}]
                   ELSE auth
      /\ last' = [op |-> "login", password |-> password,
                  status |-> IF granted THEN 200 ELSE 401,
                  token |-> IF granted THEN token ELSE Undefined,
                  before |-> auth.sessions]
      /\ UNCHANGED <<store, conc, call, ui, pdf>>

\* POST /api/auth/logout; loggedOut keeps the tokens a logout deleted
Logout(authorization) ==
  LET token == bearerToken(authorization)
  IN  /\ auth' = IF Falsy(token)
                   THEN auth
                   ELSE [auth EXCEPT !.sessions = @ \ {token},
                                     !.loggedOut = @ \cup ({token} \cap auth.sessions)]
      /\ last' = [op |-> "logout", authorization |-> authorization, status |-> 200]
      /\ UNCHANGED <<store, conc, call, ui, pdf>>

\* GET /api/transactions without query parameters: every document matches,
\* and at most 1000 make the page. The documents of the page are left out.
ListHandler(coll) == [coll |-> coll, status |-> 200, total |-> Len(coll)]

\* GET /api/transactions/distinct/:field; the values in no order
allowedFields == {"category", "counterparty", "type", "status"}
DistinctHandler(coll, field) ==
  IF field \notin allowedFields
    THEN [coll |-> coll, status |-> 400, values |-> {}]
    ELSE [coll |-> coll, status |-> 200,
          values |-> {coll[i][field] :
                        i \in {j \in 1..Len(coll) : field \in DOMAIN coll[j]}} \ {""}]

\* the loop over the lines of one file, and the push after it
RECURSIVE parseLines(_, _, _, _)
parseLines(p, lines, l, year) ==
  IF l > Len(lines)
    THEN Flushed(p)
    ELSE LET r == parseLine(p, lines[l], year)
         IN  parseLines(r, lines, IF r.break THEN Len(lines) + 1 ELSE l + 1, year)

\* the loop over the files
RECURSIVE parseFiles(_, _, _, _, _)
parseFiles(files, f, currentYear, allTransactions, errors) ==
  IF f > Len(files)
    THEN [allTransactions |-> allTransactions, errors |-> errors]
    ELSE IF ~files[f].readable
      THEN parseFiles(files, f + 1, currentYear, allTransactions,
                      Append(errors, [file |-> files[f].originalname,
                                      error |-> files[f].error]))
      ELSE parseFiles(files, f + 1, currentYear,
                      parseLines([inDetailSection |-> FALSE,
                                  pendingTransaction |-> NoPending,
                                  allTransactions |-> allTransactions],
                                 SplitLines(files[f].text), 1,
                                 yearOf(files[f].text, currentYear)),
                      errors)

\* POST /api/parse-pdf, from the request to its response
ParsePdfHandler(coll, files, currentYear) ==
  IF files = <<>>
    THEN [coll |-> coll, status |-> 400, error |-> "No PDF files uploaded"]
    ELSE LET r == parseFiles(files, 1, currentYear, <<>>, <<>>)
         IN  [coll |-> coll, status |-> 200, success |-> TRUE,
              transactions |-> r.allTransactions,
              transactionCount |-> Len(r.allTransactions),
              fileCount |-> Len(files),
              errors |-> IF Len(r.errors) > 0 THEN ArrayOf(r.errors) ELSE Undefined]

\* the protected routes, and the handler each leads to: the responses the
\* handler can give, each with the collection it leaves
ProtectedEndpoints ==
  {"import", "list", "aggregate", "summary", "distinct", "delete", "patch", "parse-pdf"}
Route(coll, request) ==
  CASE request.endpoint = "import" -> {ImportHandler(coll, request.body)}
    [] request.endpoint = "list" -> {ListHandler(coll)}
    [] request.endpoint = "aggregate" ->
         {[coll |-> coll, status |-> 200, results |-> results] :
            results \in SortedResults(Aggregate(coll, request.groupBy, request.exclude))}
    [] request.endpoint = "summary" ->
         {[coll |-> coll, status |-> 200, summary |-> Summary(coll, request.exclude)]}
    [] request.endpoint = "distinct" -> {DistinctHandler(coll, request.field)}
    [] request.endpoint = "delete" -> {DeleteHandler(coll)}
    [] request.endpoint = "patch" -> {PatchHandler(coll, request.id, request.updates)}
    [] request.endpoint = "parse-pdf" ->
         {ParsePdfHandler(coll, request.files, request.currentYear)}

\* one request of each route, and a second where the handler has two answers
ShortLetter == PdfFile("brief.pdf", "Geachte klant")
ApiRequests ==
  {[endpoint |-> "import", body |-> ArrayOf(<<OtherDescription>>)],
   [endpoint |-> "import", body |-> NotAnArray],
   [endpoint |-> "list"],
   [endpoint |-> "aggregate", groupBy |-> "category", exclude |-> "false"],
   [endpoint |-> "summary", exclude |-> "true"],
   [endpoint |-> "distinct", field |-> "category"],
   [endpoint |-> "distinct", field |-> "amount"],
   [endpoint |-> "delete"],
   [endpoint |-> "patch", id |-> 1, updates |-> [category |-> "Misc"]],
   [endpoint |-> "parse-pdf", files |-> <<ShortLetter, Corrupt>>, currentYear |-> Chars("2025")],
   [endpoint |-> "parse-pdf", files |-> <<>>, currentYear |-> Chars("2025")]}

\* the Authorization headers: none, the header the client sends for each
\* token, a token without the scheme, the scheme without a token, a guess
Bearer(token) == Str(Chars("Bearer ") \o token.s)
Authorizations ==
  {Undefined, Str(Chars("Bearer ")), Bearer(Str(Chars("raden"))), generateToken(1)}
    \cup {Bearer(generateToken(n)) : n \in 1..MaxTokens}

\* a request of a protected route: requireAuth, then the handler
ApiRequest(request, authorization) ==
  /\ IF requireAuth(auth, authorization)
       THEN \E r \in Route(store, request) :
              /\ Len(r.coll) <= MaxStore
              /\ store' = r.coll
              /\ last' = [op |-> request.endpoint, authorization |-> authorization,
                          served |-> TRUE, status |-> r.status]
       ELSE /\ store' = store
            /\ last' = [op |-> request.endpoint, authorization |-> authorization,
                        served |-> FALSE, status |-> 401]
  /\ UNCHANGED <<conc, call, ui, pdf, auth>>

InitAuth ==
  /\ store = <<>>
  /\ last = [op |-> "none"]
  /\ conc = NoRequests
  /\ call = NoCall
  /\ ui = InitialUi
  /\ pdf = NoPdfRequest
  /\ auth \in Servers

NextAuth ==
  \/ \E password \in {AuthPassword, Str(Chars("fout")), Undefined} : Login(password)
  \/ \E authorization \in Authorizations : Logout(authorization)
  \/ \E request \in ApiRequests, authorization \in Authorizations :
       ApiRequest(request, authorization)

SpecAuth == InitAuth /\ [][NextAuth]_vars

\* what the user sees of an upload: the error banner and the transactions
Report == [error |-> ui.error, transactions |-> ui.transactions]
\* the report of a request none of whose files has a recognizable format
UnrecognizedReport == [error |-> noTransactionsFound, transactions |-> <<>>]
PdfShown == pdf.pc = "shown"

\* C21: a parse request in which a file failed to parse is never reported
\* to the user as a request that found no recognizable statement is.
C21_FailureReportedDistinctly ==
  (PdfShown /\ Unreadable(pdf.files) # <<>>) => Report # UnrecognizedReport

\* the calendar day a date string writes, and whether a Date is that day
DayOf(date) == [valid |-> TRUE, y |-> date.y, m |-> date.m, d |-> date.d]
IsCalendarDate(date) == date.fmt \in {"iso", "dmy"}

\* C22: every stored transaction whose source date is a calendar date holds
\* it as an ISO-8601 date string (a DD/MM/YYYY date of the PDF parser is
\* normalized to YYYY-MM-DD), and its dateObj is that calendar day.
C22_DatesNormalized ==
  \A i \in 1..Len(store) :
    IsCalendarDate(store[i].date) =>
      store[i].date.fmt = "iso" /\ store[i].dateObj = DayOf(store[i].date)

\* C29: after any sequence of imports and corrections, the dateObj of every
\* stored transaction whose date field is an ISO date is the calendar day
\* that the date field holds.
C29_DateObjAgrees ==
  \A i \in 1..Len(store) :
    store[i].date.fmt = "iso" => store[i].dateObj = DayOf(store[i].date)

\* C23: the CSV amount parser reads "45,50" and "45.50" as 45.50 and
\* "1.234,56" as 1234.56, the value the PDF amount parser gives for it.
C23_CsvAmountParsing ==
  call.fn = "amountOf" =>
    /\ call.raw \in {Chars("45,50"), Chars("45.50")} => call.result = Number(455, 1)
    /\ call.raw = Chars("1.234,56") =>
         call.result = Number(123456, 2) /\ call.result = pdfAmount(call.raw)

\* C27: the category of every transaction the PDF parser returns is the
\* category the classifier of the CSV pipeline gives its description with a
\* negative amount.
C27_ParserCategoryIsCsvCategory ==
  PdfAnswered =>
    \A i \in 1..Len(pdf.response.transactions) :
      pdf.response.transactions[i].category
        = categorizeTransaction(pdf.response.transactions[i].description, Number(0 - 1, 0))

\* the lines of a statement as the claims name them
IsHeaderLine(line) ==
  Includes(Trim(line), Chars("Kaartnummer")) /\ Includes(Trim(line), Chars("XXXX"))
IsSkippedLine(line) ==
  \/ Includes(Trim(line), Chars("Transacties van"))
  \/ Includes(Trim(line), Chars("Datum")) /\ Includes(Trim(line), Chars("transactie"))
IsSubtotaalLine(line) == Includes(Trim(line), Chars("Subtotaal"))
IsStartLine(line) == Test(txnMatch, Trim(line), FALSE)
IsAmountLine(line) == Test(amountMatch, Trim(line), FALSE)
\* the narrative of a transaction-start line: what follows DD/MMDD/MM
Narrative(line) == Trim(SubSeq(Trim(line), 11, Len(Trim(line))))

\* the first index of a set of line indices, or none: the index after the last
FirstOf(indices, lines) ==
  IF indices = {} THEN Len(lines) + 1 ELSE CHOOSE k \in indices : \A j \in indices : k <= j
\* the indices of a set in their order
InOrder(indices) ==
  CHOOSE seq \in [1..Cardinality(indices) -> indices] :
    \A a, b \in 1..Cardinality(indices) : a < b => seq[a] < seq[b]

\* the request of one statement was answered
StatementAnswered == PdfAnswered /\ Len(pdf.files) = 1
Answered == pdf.response.transactions

\* the transaction-start lines after the first header line and before the
\* first "Subtotaal" line
StartsInSection(lines) ==
  LET header == FirstOf({k \in 1..Len(lines) : IsHeaderLine(lines[k])}, lines)
      subtotaal == FirstOf({k \in 1..Len(lines) : IsSubtotaalLine(lines[k])}, lines)
  IN  {k \in (header + 1)..(subtotaal - 1) : IsStartLine(lines[k])}

\* C24: the transactions of one statement are, in input order, one per
\* transaction-start line that lies after the first "Kaartnummer"+"XXXX"
\* header line and before the first "Subtotaal" line: none for a line met
\* while seeking the detail section, none lost, none emitted twice.
C24_OnePerStartLine ==
  StatementAnswered =>
    LET starts == InOrder(StartsInSection(pdf.lines))
    IN  /\ Len(Answered) = Len(starts)
        /\ \A i \in 1..Len(starts) : Answered[i].description = Narrative(pdf.lines[starts[i]])

\* the kind of a line for the parser: a header line and a skipped line are
\* that before anything else
LineKind(line) ==
  CASE IsHeaderLine(line) -> "header"
    [] IsSkippedLine(line) -> "skipped"
    [] IsSubtotaalLine(line) -> "subtotaal"
    [] IsAmountLine(line) -> "amount"
    [] IsStartLine(line) -> "start"
    [] OTHER -> "other"
StartsOfParser(lines) ==
  LET header == FirstOf({k \in 1..Len(lines) : LineKind(lines[k]) = "header"}, lines)
      subtotaal == FirstOf({k \in 1..Len(lines) : LineKind(lines[k]) = "subtotaal"}, lines)
  IN  {k \in (header + 1)..(subtotaal - 1) : LineKind(lines[k]) = "start"}

\* The same with the lines taken as the parser takes them: a line that
\* reads as a header line or as a skipped line is neither a start line nor
\* an end marker.
OnePerParserStartLine ==
  StatementAnswered =>
    LET starts == InOrder(StartsOfParser(pdf.lines))
    IN  /\ Len(Answered) = Len(starts)
        /\ \A i \in 1..Len(starts) : Answered[i].description = Narrative(pdf.lines[starts[i]])

\* a statement whose two transactions are flushed by the next start line and
\* by the end of the input was answered
TwoStartsAnswered ==
  /\ StatementAnswered
  /\ Len(pdf.lines) = MaxLines
  /\ Cardinality(StartsOfParser(pdf.lines)) = 2
  /\ \A k \in 1..Len(pdf.lines) : ~IsAmountLine(pdf.lines[k]) /\ ~IsSubtotaalLine(pdf.lines[k])

\* the transactions the parser returns for the lines before line k alone
ParsedBefore(lines, k, year) ==
  ParsedFrom([inDetailSection |-> FALSE, pendingTransaction |-> NoPending,
              allTransactions |-> <<>>],
             SubSeq(lines, 1, k - 1), 1, year)

\* C26: on the first line containing "Subtotaal" the parser flushes the
\* pending transaction and stops: the transactions of the statement are
\* those of the lines before that line, whatever follows it.
C26_StopsAtSubtotaal ==
  StatementAnswered =>
    Answered = ParsedBefore(pdf.lines,
                            FirstOf({k \in 1..Len(pdf.lines) : IsSubtotaalLine(pdf.lines[k])},
                                    pdf.lines),
                            pdf.year)

\* The same for the first line that the parser takes as the end marker: a
\* line containing "Subtotaal" that is no header line and no skipped line.
StopsAtParserSubtotaal ==
  StatementAnswered =>
    Answered = ParsedBefore(pdf.lines,
                            FirstOf({k \in 1..Len(pdf.lines) :
                                       LineKind(pdf.lines[k]) = "subtotaal"}, pdf.lines),
                            pdf.year)

\* a statement with a start line and an amount line after its end marker,
\* which flushed a pending transaction, was answered
StartAfterSubtotaalAnswered ==
  /\ StatementAnswered
  /\ Len(pdf.lines) = MaxLines
  /\ LineKind(pdf.lines[1]) = "header" /\ LineKind(pdf.lines[2]) = "start"
  /\ LineKind(pdf.lines[3]) = "subtotaal" /\ LineKind(pdf.lines[4]) = "start"
  /\ Len(Answered) = 1

\* the amount an amount line writes: what follows the euro sign
AmountWritten(line) == pdfAmount(TrimStart(SubSeq(Trim(line), 2, Len(Trim(line)))))

\* the amount of the transaction started at line k: that of the first amount
\* line after it, unless a start line or the end marker comes before; else 0
AmountFor(lines, k) ==
  LET next == FirstOf({j \in (k + 1)..Len(lines) :
                         LineKind(lines[j]) \in {"amount", "start", "subtotaal"}}, lines)
  IN  IF next <= Len(lines) /\ LineKind(lines[next]) = "amount"
        THEN AmountWritten(lines[next])
        ELSE Zero

\* every transaction of an answered statement has the amount of its own
\* amount line, or 0; a pending transaction has no amount yet
AmountsFromOwnLines ==
  /\ (pdf.pc = "lines" /\ pdf.pendingTransaction # NoPending) => pdf.pendingTransaction.amount = Zero
  /\ StatementAnswered =>
       LET starts == InOrder(StartsOfParser(pdf.lines))
       IN  /\ Len(Answered) = Len(starts)
           /\ \A i \in 1..Len(starts) : Answered[i].amount = AmountFor(pdf.lines, starts[i])

\* one turn of the loop: what an amount line and what a line that is no
\* amount line, no start line and no end marker do to the pending transaction
AmountLineStep ==
  (pdf.pc = "lines" /\ pdf.l <= Len(pdf.lines)) =>
    LET line == pdf.lines[pdf.l]
    IN  /\ (IsAmountLine(line) /\ pdf.pendingTransaction # NoPending) =>
             /\ pdf'.allTransactions
                  = Append(pdf.allTransactions,
                           [pdf.pendingTransaction EXCEPT !.amount = AmountWritten(line)])
             /\ pdf'.pendingTransaction = NoPending
        /\ (IsAmountLine(line) /\ pdf.pendingTransaction = NoPending) =>
             /\ pdf'.allTransactions = pdf.allTransactions
             /\ pdf'.pendingTransaction = NoPending
             /\ pdf'.inDetailSection = pdf.inDetailSection
        /\ (~IsAmountLine(line) /\ ~IsStartLine(line) /\ ~IsSubtotaalLine(line)) =>
             /\ pdf'.allTransactions = pdf.allTransactions
             /\ pdf'.pendingTransaction = pdf.pendingTransaction

\* C25: an amount line sets the amount of the pending transaction, emits it
\* and clears the pending slot, so a transaction has at most one amount, that
\* of the first amount line after its start line and before any other start
\* line; an amount line with nothing pending changes nothing; a transaction
\* flushed without an amount line has amount 0; any other line that is no
\* start line and no end marker leaves the pending transaction unchanged.
C25_AmountLines == []AmountsFromOwnLines /\ [][AmountLineStep]_vars

\* a statement of a header, two start lines and an amount line was answered:
\* the amount went to the second transaction and the first has amount 0
C25_AmountToLatestStart ==
  /\ StatementAnswered
  /\ Len(pdf.lines) = MaxLines
  /\ LineKind(pdf.lines[1]) = "header" /\ LineKind(pdf.lines[2]) = "start"
  /\ LineKind(pdf.lines[3]) = "start" /\ LineKind(pdf.lines[4]) = "amount"
  /\ Len(Answered) = 2
  /\ Answered[1].amount = Zero /\ Answered[2].amount = Number(0 - 5497, 2)

\* an import with an array body whose bulk write was interrupted
InterruptedServed ==
  last.op = "importInterrupted" /\ last.body.present /\ last.body.isArray

\* C28: an import whose store write fails for another reason than a
\* uniqueness violation (the connection is lost, the driver refuses the
\* batch) is answered 500 with an error and no counts; an import whose only
\* store failures are uniqueness violations is answered 200 with its counts
\* and is applied once.
C28_StoreFailureIsAnError ==
  /\ InterruptedServed =>
       /\ last.status = 500 /\ last.error # ""
       /\ last.insertedCount = 0 /\ last.duplicateCount = 0
  /\ (ImportServed /\ Items = <<>>) => last.status = 500 /\ last.error # ""
  /\ (ImportServed /\ Items # <<>>) =>
       /\ last.status = 200 /\ last.error = ""
       /\ last.insertedCount + last.duplicateCount = Len(Items)
       /\ Len(store) = Len(last.before) + last.insertedCount

\* the connection was lost after the store had applied one document of two
C28_InterruptedAfterPartialWrite ==
  /\ InterruptedServed
  /\ Len(last.body.items) = 2 /\ last.applied = 1
  /\ Len(store) = Len(last.before) + 1

\* an import all of whose rows were duplicates was answered
AllDuplicatesServed ==
  /\ ImportServed /\ Items # <<>>
  /\ last.status = 200 /\ last.duplicateCount = Len(Items)

\* the server asks for a session: a password is configured, no test mode
Protected == ~Falsy(auth.password) /\ auth.env # "test"
\* the last request was one of a protected route
ApiAnswered == last.op \in ProtectedEndpoints
\* the tokens a login with the configured password issued and no logout
\* has deleted since
LiveTokens ==
  {l.token : l \in {g \in auth.logins : g.password = auth.password}} \ auth.loggedOut

\* C30: with a password configured and outside test mode, a request of a
\* protected route is served only if its bearer token was issued by a login
\* with the correct password and not logged out since; a login with a wrong
\* password adds no session; a request with a logged-out token is answered
\* 401.
C30_OnlyLiveTokensServed ==
  Protected =>
    /\ (ApiAnswered /\ last.served) => bearerToken(last.authorization) \in LiveTokens
    /\ (last.op = "login" /\ last.password # auth.password) =>
         last.status = 401 /\ auth.sessions = last.before
    /\ (ApiAnswered /\ bearerToken(last.authorization) \in auth.loggedOut) =>
         ~last.served /\ last.status = 401
    /\ auth.sessions \subseteq LiveTokens

\* C30 (witness): a token that a login issued and a logout deleted is
\* refused by a protected route while another token is still in session
C30_LoggedOutTokenRefused ==
  /\ Protected /\ ApiAnswered /\ last.status = 401
  /\ bearerToken(last.authorization) \in auth.loggedOut
  /\ auth.sessions # {}

\* a protected route served a request of a token in session
TokenServed == Protected /\ ApiAnswered /\ last.served /\ last.status = 200

====
